---- MODULE Spec2Model ----
(***************************************************************************)
(* Risk-scoring pipeline of blockchain-payment-app (src/lib/ml):           *)
(* FeatureEngineer, FraudDetectionModel, FalseDeclineOptimizer, MLService. *)
(*                                                                         *)
(* Numbers.  Real-valued quantities of the source are fixed-point          *)
(* integers in thousandths ("milli"): 0.3 is 300, 1.0 is 1000.  Flags      *)
(* (0 / 1 in the source) are 0 / 1000.  Amounts are cents.  Time is in     *)
(* hours (the source uses epoch milliseconds).                             *)
(***************************************************************************)
EXTENDS Integers, Sequences, FiniteSets, TLC

VARIABLES
    userTransactionHistory, \* featureEngineering.ts:13  Map<userId, Transaction[]>
    featureCache,           \* featureEngineering.ts:12  Map<userId, user_age_days>
    predictionHistory,      \* mlService.ts:27           ModelPrediction[]
    now,                    \* Date.now(), in hours
    calls,                  \* number of operations invoked so far (bounded)
    inflight,               \* results of assessRisk calls whose promise is not yet consumed
    lastOp,                 \* the operation that produced this state, with its result
    probe,                  \* synthetic input of the pure-function specifications
    walletStore,            \* walletStore.ts:34        the zustand wallet store
    localStorage,           \* useWeb3.ts:85            the saved connection keys
    pending,                \* promises of the wallet hook that are not yet settled
    selected                \* the account selected in the wallet extension

walletVars == <<walletStore, localStorage, pending, selected>>

vars == <<userTransactionHistory, featureCache, predictionHistory, now,
          calls, inflight, lastOp, probe, walletVars>>

(***************************************************************************)
(* Bounds of the model.                                                    *)
(***************************************************************************)
\* The source keeps 1000 entries per customer (featureEngineering.ts:281);
\* the model runs the same code with a small limit so that eviction happens.
HistoryLimit == 2
\* The source keeps 1000 predictions (mlService.ts:118); scaled likewise.
PredictionLogLimit == 2
\* Number of operations (assessRisk, batchAssessRisk, updateUserHistory) per run.
MaxCalls == 3
\* The clock starts at NowStart and advances MaxTicks times by TickHours.
MaxTicks == 1
NowStart == 1000
TickHours == 100

One == 1000

Min(a, b) == IF a < b THEN a ELSE b
Max(a, b) == IF a > b THEN a ELSE b

(***************************************************************************)
(* Inputs.  A transaction carries the fields the pipeline reads            *)
(* (types/payment.ts:31-41).  customerId "" is the absent customer.        *)
(***************************************************************************)
TxnA1 == [id |-> 1, timestamp |-> 800, amount |-> 500000,
          paymentMethod |-> "crypto", merchantName |-> "Steam", customerId |-> "alice"]
TxnA2 == [id |-> 2, timestamp |-> 999, amount |-> 5000,
          paymentMethod |-> "card", merchantName |-> "Amazon", customerId |-> "alice"]
\* malformed: negative amount, no customer
TxnBad == [id |-> 3, timestamp |-> 998, amount |-> -50,
          paymentMethod |-> "credit_card", merchantName |-> "Unknown Merchant", customerId |-> ""]

Txns == {TxnA1, TxnA2, TxnBad}

\* spec.md section 7, ValidationError: negative amounts are malformed.
ValidTxn(t) == t.amount > 0

\* Outcomes of the random source, one record per extractFeatures call:
\* age feeds calculateUserAge (featureEngineering.ts:202), device, ip and
\* billing feed extractDeviceFeatures (featureEngineering.ts:137-142).
\* Each is a value of Math.random() in thousandths.
RandomDraws ==
    { [age |-> 0,   device |-> 0,   ip |-> 0,   billing |-> 0],
      [age |-> 600, device |-> 900, ip |-> 900, billing |-> 900] }

\* Outcomes of the random source over the two extractions of one assessRisk
\* call (mlService.ts:44, fraudDetectionModel.ts:99): twice the low draws,
\* twice the high draws, or the low draws followed by the high draws.
RandomPairs == { p \in RandomDraws \X RandomDraws : p[1].age <= p[2].age }

(***************************************************************************)
(* Math.log1p (featureEngineering.ts:61) in fixed point.                   *)
(* LnE4(n) is 10^4 * ln(n) for an integer n >= 1: n = 2^e * m with         *)
(* 1 <= m < 2 and ln(m) = 2 * atanh((m-1)/(m+1)).                          *)
(***************************************************************************)
RECURSIVE Pow2Below(_, _)
Pow2Below(n, p) == IF 2 * p > n THEN p ELSE Pow2Below(n, 2 * p)

RECURSIVE Log2Of(_)
Log2Of(p) == IF p = 1 THEN 0 ELSE 1 + Log2Of(p \div 2)

LnE4(n) ==
    LET p  == Pow2Below(n, 1)
        \* (m-1)/(m+1) = (n-p)/(n+p); k keeps the products within 32 bits
        k  == (n + p) \div 100000 + 1
        y  == (((n - p) \div k) * 10000) \div ((n + p) \div k)
        y2 == (y * y) \div 10000
        y3 == (y2 * y) \div 10000
        y5 == (y3 * y2) \div 10000
        y7 == (y5 * y2) \div 10000
    IN  Log2Of(p) * 6931 + 2 * (y + y3 \div 3 + y5 \div 5 + y7 \div 7)

\* log1p(amount) in milli, amount in cents; amounts <= -1.00 have no finite log.
Log1pMilli(cents) == (LnE4(100 + cents) - LnE4(100)) \div 10

(***************************************************************************)
(* FeatureEngineer (featureEngineering.ts)                                 *)
(***************************************************************************)
UserIdOf(t) == IF t.customerId = "" THEN "anonymous" ELSE t.customerId

getUserHistory(hist, userId) ==
    IF userId \in DOMAIN hist THEN hist[userId] ELSE <<>>

\* Date#getHours and Date#getDay of an hour count (epoch day 0 is a Thursday).
HoursOf(ts) == ts % 24
DayOf(ts) == ((ts \div 24) + 4) % 7

extractBasicFeatures(t) ==
    [ amount      |-> t.amount,
      amount_log  |-> Log1pMilli(t.amount),
      hour_of_day |-> (HoursOf(t.timestamp) * One) \div 24,
      day_of_week |-> (DayOf(t.timestamp) * One) \div 7,
      is_weekend  |-> IF DayOf(t.timestamp) \in {0, 6} THEN One ELSE 0 ]

\* The cached age is in thousandths of a day.  A cached value of 0 is falsy
\* (featureEngineering.ts:200) and is drawn again.
calculateUserAge(cache, userId, r) ==
    IF userId \in DOMAIN cache /\ cache[userId] # 0
    THEN [age |-> cache[userId], cache |-> cache]
    ELSE LET age == r * 365 * 3
         IN  [age |-> age,
              cache |-> [u \in DOMAIN cache \cup {userId} |->
                            IF u = userId THEN age ELSE cache[u]]]

RECURSIVE CountAfter(_, _)
CountAfter(history, cutoff) ==
    IF history = <<>> THEN 0
    ELSE (IF Head(history).timestamp > cutoff THEN 1 ELSE 0)
         + CountAfter(Tail(history), cutoff)

RECURSIVE SumAfter(_, _)
SumAfter(history, cutoff) ==
    IF history = <<>> THEN 0
    ELSE (IF Head(history).timestamp > cutoff THEN Head(history).amount ELSE 0)
         + SumAfter(Tail(history), cutoff)

\* JavaScript division of two numbers, truncated to an integer toward zero.
Quot(a, b) == IF a >= 0 THEN a \div b ELSE -((-a) \div b)

countRecentTransactions(history, hours, clock) ==
    CountAfter(history, clock - hours)

\* in cents; 0 when no entry is recent
calculateAverageAmount(history, days, clock) ==
    LET cutoff == clock - days * 24
        n == CountAfter(history, cutoff)
    IN  IF n = 0 THEN 0 ELSE Quot(SumAfter(history, cutoff), n)

extractUserFeatures(hist, cache, clock, r, t) ==
    LET userId  == UserIdOf(t)
        history == getUserHistory(hist, userId)
        aged    == calculateUserAge(cache, userId, r)
        txnCount24h == countRecentTransactions(history, 24, clock)
        txnCount7d  == countRecentTransactions(history, 24 * 7, clock)
        avgAmount30d == calculateAverageAmount(history, 30, clock)
    IN  [ features |->
            [ user_age_days        |-> aged.age \div 365,
              user_txn_count_24h   |-> Min(txnCount24h * 100, One),
              user_txn_count_7d    |-> Min(txnCount7d * 20, One),
              user_avg_amount_30d  |-> Quot(avgAmount30d, 100),
              user_txn_frequency   |-> Min((txnCount7d * One) \div 35, One),
              is_first_transaction |-> IF Len(history) = 0 THEN One ELSE 0 ],
          cache |-> aged.cache ]

extractVelocityFeatures(hist, clock, t) ==
    LET history == getUserHistory(hist, UserIdOf(t))
    IN  IF Len(history) = 0
        THEN [ amount_ratio_vs_avg |-> One,
               time_since_last_txn_minutes |-> 9999 * One ]
        ELSE LET avgAmount == calculateAverageAmount(history, 30, clock)
                 \* amountRatio / 5
                 ratio5 == IF avgAmount > 0
                           THEN Quot(t.amount * One, avgAmount * 5)
                           ELSE One \div 5
                 lastTransaction == history[Len(history)]
                 hoursSinceLast == t.timestamp - lastTransaction.timestamp
             IN  [ amount_ratio_vs_avg |-> Min(ratio5, One),
                   time_since_last_txn_minutes |->
                       Min(Quot(hoursSinceLast * One, 24), One) ]

extractDeviceFeatures(rnd) ==
    [ device_age_days        |-> rnd.device,
      ip_country_match       |-> IF rnd.ip > 100 THEN One ELSE 0,
      billing_shipping_match |-> IF rnd.billing > 50 THEN One ELSE 0 ]

getMerchantFraudRate(merchant) ==
    CASE merchant = "Amazon" -> 20
      [] merchant = "Steam" -> 50
      [] merchant = "Nike" -> 30
      [] merchant = "Apple" -> 10
      [] merchant = "Spotify" -> 20
      [] merchant = "Unknown Merchant" -> 150
      [] OTHER -> 80

\* in dollars
getMerchantAvgAmount(merchant) ==
    CASE merchant = "Amazon" -> 150
      [] merchant = "Steam" -> 60
      [] merchant = "Nike" -> 200
      [] merchant = "Apple" -> 500
      [] merchant = "Spotify" -> 10
      [] merchant = "Unknown Merchant" -> 100
      [] OTHER -> 100

extractMerchantFeatures(t) ==
    [ merchant_fraud_rate_30d |-> getMerchantFraudRate(t.merchantName),
      merchant_avg_amount     |-> getMerchantAvgAmount(t.merchantName) ]

extractPaymentMethodFeatures(t) ==
    LET paymentMethod == t.paymentMethod
    IN  [ payment_method_risk_score |->
            CASE paymentMethod = "crypto" -> 600
              [] paymentMethod = "credit_card" -> 300
              [] paymentMethod = "debit_card" -> 250
              [] paymentMethod = "bank_transfer" -> 200
              [] OTHER -> 500,
          is_crypto |-> IF paymentMethod = "crypto" THEN One ELSE 0 ]

\* { ...f, ...g }: the fields of both records, those of g winning.
Spread(f, g) == g @@ f

\* Object.entries order of a feature vector: the order of the spreads of
\* extractFeatures and of the keys within each group.
FeatureKeys ==
    << "amount", "amount_log", "hour_of_day", "day_of_week", "is_weekend",
       "user_age_days", "user_txn_count_24h", "user_txn_count_7d",
       "user_avg_amount_30d", "user_txn_frequency", "is_first_transaction",
       "amount_ratio_vs_avg", "time_since_last_txn_minutes",
       "device_age_days", "ip_country_match", "billing_shipping_match",
       "merchant_fraud_rate_30d", "merchant_avg_amount",
       "payment_method_risk_score", "is_crypto" >>

\* variant: reading the history of an unknown customer creates its entry
\* (get-or-create, as updateUserHistory does)
extractFeaturesCreatingKey(hist, cache, clock, rnd, t) ==
    LET user == extractUserFeatures(hist, cache, clock, rnd.age, t)
    IN  [ features |->
            Spread(extractBasicFeatures(t),
            Spread(user.features,
            Spread(extractVelocityFeatures(hist, clock, t),
            Spread(extractDeviceFeatures(rnd),
            Spread(extractMerchantFeatures(t),
                   extractPaymentMethodFeatures(t)))))),
          cache |-> user.cache,
          hist  |-> [u \in DOMAIN hist \cup {UserIdOf(t)} |-> getUserHistory(hist, u)] ]

\* Returns the feature vector, and the feature cache and the history map
\* after the call (the history is read through getUserHistory only).
extractFeatures(hist, cache, clock, rnd, t) ==
    LET user == extractUserFeatures(hist, cache, clock, rnd.age, t)
    IN  [ features |->
            Spread(extractBasicFeatures(t),
            Spread(user.features,
            Spread(extractVelocityFeatures(hist, clock, t),
            Spread(extractDeviceFeatures(rnd),
            Spread(extractMerchantFeatures(t),
                   extractPaymentMethodFeatures(t)))))),
          cache |-> user.cache,
          hist  |-> hist ]

\* variant: evicts the newest entry (pop) instead of the oldest (shift)
updateUserHistoryDropNewest(hist, t) ==
    LET userId == UserIdOf(t)
        pushed == Append(getUserHistory(hist, userId), t)
        kept   == IF Len(pushed) > HistoryLimit
                  THEN SubSeq(pushed, 1, Len(pushed) - 1) ELSE pushed
    IN  [u \in DOMAIN hist \cup {userId} |-> IF u = userId THEN kept ELSE hist[u]]

\* variant: inserts at the front (unshift) instead of the back (push)
updateUserHistoryUnshift(hist, t) ==
    LET userId == UserIdOf(t)
        pushed == <<t>> \o getUserHistory(hist, userId)
        kept   == IF Len(pushed) > HistoryLimit THEN Tail(pushed) ELSE pushed
    IN  [u \in DOMAIN hist \cup {userId} |-> IF u = userId THEN kept ELSE hist[u]]

\* variant: the map is replaced by one that holds the customer's history only
updateUserHistorySingleKey(hist, t) ==
    LET userId == UserIdOf(t)
        pushed == Append(getUserHistory(hist, userId), t)
        kept   == IF Len(pushed) > HistoryLimit THEN Tail(pushed) ELSE pushed
    IN  [u \in {userId} |-> kept]

updateUserHistory(hist, t) ==
    LET userId == UserIdOf(t)
        pushed == Append(getUserHistory(hist, userId), t)
        kept   == IF Len(pushed) > HistoryLimit THEN Tail(pushed) ELSE pushed
    IN  [u \in DOMAIN hist \cup {userId} |-> IF u = userId THEN kept ELSE hist[u]]

\* FeatureEngineer.getFeatureImportance: the feature names, in key order.
FeatureNames ==
    << "amount_ratio_vs_avg", "user_txn_count_24h", "merchant_fraud_rate_30d",
       "amount_log", "time_since_last_txn_minutes", "user_age_days",
       "payment_method_risk_score", "is_crypto", "device_age_days",
       "ip_country_match", "billing_shipping_match", "is_first_transaction",
       "hour_of_day" >>

(***************************************************************************)
(* FraudDetectionModel (fraudDetectionModel.ts)                            *)
(***************************************************************************)
\* TrainingConfig defaults (fraudDetectionModel.ts:41-45)
numTrees == 100
learningRate == 100
falseDeclineWeight == 300

\* variant: the low-risk leaf predicts 0 instead of 0.1
createMockTreeZeroLeaf(treeIndex) ==
    [ featureName |-> FeatureNames[(treeIndex % Len(FeatureNames)) + 1],
      threshold   |-> 500,
      leftChild   |-> [ featureName |-> "amount_log",
                        threshold   |-> 300,
                        leftChild   |-> [prediction |-> 0],
                        rightChild  |-> [prediction |-> 300] ],
      rightChild  |-> [ featureName |-> "user_txn_count_24h",
                        threshold   |-> 700,
                        leftChild   |-> [prediction |-> 500],
                        rightChild  |-> [prediction |-> 800] ] ]

createMockTree(treeIndex) ==
    [ featureName |-> FeatureNames[(treeIndex % Len(FeatureNames)) + 1],
      threshold   |-> 500,
      leftChild   |-> [ featureName |-> "amount_log",
                        threshold   |-> 300,
                        leftChild   |-> [prediction |-> 100],
                        rightChild  |-> [prediction |-> 300] ],
      rightChild  |-> [ featureName |-> "user_txn_count_24h",
                        threshold   |-> 700,
                        leftChild   |-> [prediction |-> 500],
                        rightChild  |-> [prediction |-> 800] ] ]

\* initializeModel: this.trees
trees == [i \in 0 .. numTrees - 1 |-> createMockTree(i)]

\* A feature that the object lacks reads as undefined, and
\* undefined < threshold is false: the right child is taken.
RECURSIVE predictSingleTree(_, _)
predictSingleTree(node, features) ==
    IF "prediction" \in DOMAIN node
    THEN node.prediction
    ELSE IF node.featureName \in DOMAIN features
            /\ features[node.featureName] < node.threshold
         THEN predictSingleTree(node.leftChild, features)
         ELSE predictSingleTree(node.rightChild, features)

\* Math.exp(-x) * 10^4 for x >= 0 in milli, from e^-a * e^-(b/10) * e^-(c/100).
ExpNegUnits == << 10000, 3679, 1353, 498, 183, 67, 25, 9, 3, 1 >>
ExpNegTenths == << 10000, 9048, 8187, 7408, 6703, 6065, 5488, 4966, 4493, 4066 >>
ExpNegHundredths == << 10000, 9900, 9802, 9704, 9608, 9512, 9418, 9324, 9231, 9139 >>

ExpNegE4(x) ==
    LET a == x \div 1000
        b == (x % 1000) \div 100
        c == (x % 100) \div 10
    IN  IF a > 9 THEN 0
        ELSE (((ExpNegUnits[a + 1] * ExpNegTenths[b + 1]) \div 10000)
                 * ExpNegHundredths[c + 1]) \div 10000

\* 1 / (1 + Math.exp(-sum)), in milli
Sigmoid(sum) == (10000 * One) \div (10000 + ExpNegE4(sum))

\* variant: the multipliers are applied without the caps and the final clamp
adjustFraudProbabilityUncapped(baseProbability, features) ==
    LET a1 == IF features.is_crypto = One /\ features.amount_ratio_vs_avg > 800
              THEN (baseProbability * 13) \div 10
              ELSE baseProbability
        a2 == IF features.is_first_transaction = One /\ features.amount_log > 700
              THEN (a1 * 12) \div 10
              ELSE a1
    IN  IF features.user_age_days > 500 /\ features.user_txn_count_7d > 300
        THEN (a2 * 8) \div 10
        ELSE a2

\* variant: the protective factor 0.8 is applied before the two capped
\* multipliers
adjustFraudProbabilityProtectiveFirst(baseProbability, features) ==
    LET a1 == IF features.user_age_days > 500 /\ features.user_txn_count_7d > 300
              THEN (baseProbability * 8) \div 10
              ELSE baseProbability
        a2 == IF features.is_crypto = One /\ features.amount_ratio_vs_avg > 800
              THEN Min((a1 * 13) \div 10, One)
              ELSE a1
        a3 == IF features.is_first_transaction = One /\ features.amount_log > 700
              THEN Min((a2 * 12) \div 10, One)
              ELSE a2
    IN  Max(0, Min(One, a3))

adjustFraudProbability(baseProbability, features) ==
    LET a1 == IF features.is_crypto = One /\ features.amount_ratio_vs_avg > 800
              THEN Min((baseProbability * 13) \div 10, One)
              ELSE baseProbability
        a2 == IF features.is_first_transaction = One /\ features.amount_log > 700
              THEN Min((a1 * 12) \div 10, One)
              ELSE a1
        a3 == IF features.user_age_days > 500 /\ features.user_txn_count_7d > 300
              THEN (a2 * 8) \div 10
              ELSE a2
    IN  Max(0, Min(One, a3))

\* sum of learningRate * treePrediction over the trees lo .. hi - 1
RECURSIVE SumTrees(_, _, _)
SumTrees(lo, hi, features) ==
    IF hi <= lo THEN 0
    ELSE IF hi = lo + 1
         THEN (learningRate * predictSingleTree(trees[lo], features)) \div One
         ELSE LET mid == (lo + hi) \div 2
              IN  SumTrees(lo, mid, features) + SumTrees(mid, hi, features)

predictFraudProbability(features) ==
    adjustFraudProbability(Sigmoid(SumTrees(0, numTrees, features)), features)

\* The outcome of predictFraudProbability on an arbitrary object: the method
\* and predictSingleTree contain no validation and no throw statement, and
\* reading an absent property does not throw, so the call always returns.
scoreOutcome(features) ==
    [ threw |-> FALSE, fraudProbability |-> predictFraudProbability(features) ]

predictFalseDeclineRisk(features, fraudProbability) ==
    LET r1 == IF features.user_age_days > 400 /\ features.amount_log > 600
              THEN 300 ELSE 0
        r2 == IF features.amount_ratio_vs_avg > 500 /\ features.amount_ratio_vs_avg < 900
              THEN 200 ELSE 0
        r3 == IF features.ip_country_match = One /\ features.billing_shipping_match = One
              THEN 300 ELSE 0
        r4 == IF features.user_txn_frequency > 400 THEN 200 ELSE 0
        r5 == IF fraudProbability > 300 /\ fraudProbability < 600 THEN 300 ELSE 0
    IN  Min(r1 + r2 + r3 + r4 + r5, One)

\* config?.falseDeclineWeight || 0.3 (fraudDetectionModel.ts:45): a configured
\* weight of 0 is falsy and gives the default
configuredWeight(weight) == IF weight = 0 THEN falseDeclineWeight ELSE weight

\* variant: the false-decline term is added instead of subtracted
adjustScoreWeightedRaising(fraudProbability, falseDeclineRisk, weight) ==
    LET adjusted == (fraudProbability * (One + (weight * falseDeclineRisk) \div One)) \div One
    IN  Max(0, Min(One, adjusted))

\* adjustScoreForFalseDecline of a model configured with the given weight
adjustScoreWeighted(fraudProbability, falseDeclineRisk, weight) ==
    LET adjusted == (fraudProbability * (One - (weight * falseDeclineRisk) \div One)) \div One
    IN  Max(0, Min(One, adjusted))

adjustScoreForFalseDecline(fraudProbability, falseDeclineRisk) ==
    adjustScoreWeighted(fraudProbability, falseDeclineRisk, falseDeclineWeight)

\* variant: the approve band includes its upper end
makeDecisionInclusive(score) ==
    IF score <= 300 THEN "approve"
    ELSE IF score < 600 THEN "review"
    ELSE "decline"

makeDecision(score) ==
    IF score < 300 THEN "approve"
    ELSE IF score < 600 THEN "review"
    ELSE "decline"

calculateConfidence(features, score) ==
    LET c1 == IF features.user_age_days > 300 /\ features.user_txn_count_7d > 200
              THEN 150 ELSE 0
        c2 == IF score < 200 \/ score > 700 THEN 100 ELSE 0
        c3 == IF features.ip_country_match = One /\ features.billing_shipping_match = One
              THEN 50 ELSE 0
    IN  Min(700 + c1 + c2 + c3, One)

\* Math.round(x / 10) for x >= 0
RoundDiv10(x) == (x + 5) \div 10

\* the placeholder explanation of the model (fraudDetectionModel.ts:312-323)
explainPrediction ==
    [ topFeatures |-> << >>, riskFactors |-> << >>,
      protectiveFactors |-> << >>, shapValues |-> << >> ]

\* Lines 101-136 of predict: the scoring chain on an extracted feature vector.
scoreFeatures(transactionId, features) ==
    LET fraudProbability == predictFraudProbability(features)
        falseDeclineRisk == predictFalseDeclineRisk(features, fraudProbability)
        adjustedScore == adjustScoreForFalseDecline(fraudProbability, falseDeclineRisk)
    IN  [ transactionId    |-> transactionId,
          riskScore        |-> RoundDiv10(adjustedScore),
          fraudProbability |-> fraudProbability,
          falseDeclineRisk |-> falseDeclineRisk,
          adjustedScore    |-> adjustedScore,
          decision         |-> makeDecision(adjustedScore),
          confidence       |-> calculateConfidence(features, adjustedScore),
          features         |-> features,
          explanation      |-> explainPrediction ]

\* Returns the prediction and the feature cache after the call.
predict(hist, cache, clock, rnd, t) ==
    LET ex == extractFeatures(hist, cache, clock, rnd, t)
    IN  [ prediction |-> scoreFeatures(t.id, ex.features), cache |-> ex.cache ]

(***************************************************************************)
(* SHAPExplainer (shapExplainer.ts).  Contributions are in millionths.     *)
(***************************************************************************)
baseValue == 150

\* JavaScript null (falsy, like the empty string)
null == ""

Abs(x) == IF x < 0 THEN -x ELSE x

\* this.featureImportance[featureName] || 0.01
featureImportance(featureName) ==
    CASE featureName = "amount_ratio_vs_avg" -> 150
      [] featureName = "user_txn_count_24h" -> 120
      [] featureName = "merchant_fraud_rate_30d" -> 110
      [] featureName = "amount_log" -> 100
      [] featureName = "time_since_last_txn_minutes" -> 90
      [] featureName = "user_age_days" -> 80
      [] featureName = "payment_method_risk_score" -> 80
      [] featureName = "is_crypto" -> 70
      [] featureName = "device_age_days" -> 60
      [] featureName = "ip_country_match" -> 50
      [] featureName = "billing_shipping_match" -> 40
      [] featureName = "is_first_transaction" -> 30
      [] featureName = "hour_of_day" -> 20
      [] OTHER -> 10

\* normalValues[featureName] || 0.5
normalValues(featureName) ==
    CASE featureName = "amount_log" -> 400
      [] featureName = "user_age_days" -> 300
      [] featureName = "user_txn_count_24h" -> 100
      [] featureName = "user_txn_count_7d" -> 200
      [] featureName = "amount_ratio_vs_avg" -> 500
      [] featureName = "time_since_last_txn_minutes" -> 300
      [] featureName = "merchant_fraud_rate_30d" -> 30
      [] featureName = "payment_method_risk_score" -> 300
      [] featureName = "device_age_days" -> 400
      [] featureName = "ip_country_match" -> One
      [] featureName = "billing_shipping_match" -> One
      [] OTHER -> 500

\* The value of a feature in thousandths: amount is kept in cents and
\* merchant_avg_amount in dollars, every other feature in thousandths.
MilliOf(featureName, value) ==
    CASE featureName = "amount" -> value * 10
      [] featureName = "merchant_avg_amount" -> value * One
      [] OTHER -> value

calculateDeviation(featureName, value) ==
    MilliOf(featureName, value) - normalValues(featureName)

\* importance * deviation * (prediction - baseValue), truncated to millionths;
\* the product is formed in two parts to stay within 32 bits.
calculateSHAPValues(features, prediction) ==
    [ featureName \in DOMAIN features |->
        LET importance == featureImportance(featureName)
            deviation == calculateDeviation(featureName, features[featureName])
            weighted == importance * deviation
            strength == prediction - baseValue
            whole == Quot(weighted, One)
            part == weighted - whole * One
        IN  whole * strength + Quot(part * strength, One) ]

\* variant: the importance is the signed value (Math.abs left out)
contributionOfSigned(shapValues, feature) ==
    LET shapValue == shapValues[feature]
    IN  [ feature |-> feature, value |-> shapValue, contribution |-> shapValue,
          impact |-> IF shapValue > 0 THEN "increase" ELSE "decrease",
          importance |-> shapValue ]

\* the FeatureContribution pushed for one entry of shapValues
contributionOf(shapValues, feature) ==
    LET shapValue == shapValues[feature]
    IN  [ feature |-> feature, value |-> shapValue, contribution |-> shapValue,
          impact |-> IF shapValue > 0 THEN "increase" ELSE "decrease",
          importance |-> Abs(shapValue) ]

\* Array#sort((a, b) => b.importance - a.importance) is stable: an entry
\* goes behind the entries whose importance is not smaller.
InsertByImportance(sorted, c) ==
    LET k == Len(SelectSeq(sorted, LAMBDA e : e.importance >= c.importance))
    IN  SubSeq(sorted, 1, k) \o <<c>> \o SubSeq(sorted, k + 1, Len(sorted))

\* the contributions of the features in keys, sorted into sorted
RECURSIVE SortByImportance(_, _, _)
SortByImportance(sorted, shapValues, keys) ==
    IF keys = << >> THEN sorted
    ELSE SortByImportance(InsertByImportance(sorted, contributionOf(shapValues, Head(keys))),
                          shapValues, Tail(keys))

\* Object.entries(shapValues) in key order, sorted by descending importance,
\* slice(0, topN).
getTopFeatures(shapValues, topN) ==
    LET keys == SelectSeq(FeatureKeys, LAMBDA k : k \in DOMAIN shapValues)
        contributions == SortByImportance(<< >>, shapValues, keys)
    IN  SubSeq(contributions, 1, Min(topN, Len(contributions)))

\* The explanation texts of a feature; the dollar figure that the risk text
\* of amount_log prints is left out.  Features without an entry give null.
getFeatureExplanation(featureName, features, type) ==
    LET risk ==
            CASE featureName = "amount_log" -> "High transaction amount"
              [] featureName = "amount_ratio_vs_avg" -> "Transaction amount significantly above user average"
              [] featureName = "user_age_days" -> "New user account (higher risk)"
              [] featureName = "user_txn_count_24h" -> "Multiple transactions in short time (velocity)"
              [] featureName = "user_txn_count_7d" -> "High transaction volume this week"
              [] featureName = "time_since_last_txn_minutes" -> "Very quick successive transactions"
              [] featureName = "merchant_fraud_rate_30d" -> "Merchant with elevated fraud rate"
              [] featureName = "payment_method_risk_score" -> "High-risk payment method selected"
              [] featureName = "is_crypto" -> "Cryptocurrency payment (irreversible)"
              [] featureName = "device_age_days" -> "New or unrecognized device"
              [] featureName = "ip_country_match" -> "IP location mismatch with billing country"
              [] featureName = "billing_shipping_match" -> "Billing and shipping addresses do not match"
              [] featureName = "is_first_transaction" -> "First transaction for this user"
              [] featureName = "hour_of_day" -> "Transaction at unusual hour (late night)"
              [] featureName = "is_weekend" -> "Weekend transaction pattern"
              [] OTHER -> null
        protective ==
            CASE featureName = "amount_log" -> "Normal transaction amount for user"
              [] featureName = "amount_ratio_vs_avg" -> "Transaction amount consistent with history"
              [] featureName = "user_age_days" -> "Established user account (lower risk)"
              [] featureName = "user_txn_count_24h" -> "Normal transaction frequency"
              [] featureName = "user_txn_count_7d" -> "Low transaction volume (controlled spending)"
              [] featureName = "time_since_last_txn_minutes" -> "Reasonable time between transactions"
              [] featureName = "merchant_fraud_rate_30d" -> "Trusted merchant with low fraud rate"
              [] featureName = "payment_method_risk_score" -> "Low-risk payment method"
              [] featureName = "is_crypto" -> "Traditional reversible payment method"
              [] featureName = "device_age_days" -> "Known and trusted device"
              [] featureName = "ip_country_match" -> "IP location matches billing address"
              [] featureName = "billing_shipping_match" -> "Billing and shipping addresses match"
              [] featureName = "is_first_transaction" -> "Returning customer with history"
              [] featureName = "hour_of_day" -> "Transaction during normal business hours"
              [] featureName = "is_weekend" -> "Weekday transaction (normal pattern)"
              [] OTHER -> null
    IN  IF type = "risk" THEN risk ELSE protective

\* the explanations of the top features with the given impact, in order
FactorsOf(topFeatures, features, impact, type) ==
    LET chosen == SelectSeq(topFeatures, LAMBDA f :
                      /\ f.impact = impact
                      /\ getFeatureExplanation(f.feature, features, type) # null)
    IN  [ i \in DOMAIN chosen |-> getFeatureExplanation(chosen[i].feature, features, type) ]

extractRiskFactors(topFeatures, features) ==
    FactorsOf(topFeatures, features, "increase", "risk")

extractProtectiveFactors(topFeatures, features) ==
    FactorsOf(topFeatures, features, "decrease", "protective")

explain(features, fraudProbability) ==
    LET shapValues == calculateSHAPValues(features, fraudProbability)
        topFeatures == getTopFeatures(shapValues, 5)
    IN  [ topFeatures       |-> topFeatures,
          riskFactors       |-> extractRiskFactors(topFeatures, features),
          protectiveFactors |-> extractProtectiveFactors(topFeatures, features),
          shapValues        |-> shapValues ]

(***************************************************************************)
(* IEEE 754 binary64 numbers, for the threshold grid of optimizeThresholds. *)
(* A positive number is [exp, hi, lo] with value                            *)
(* (hi * 2^27 + lo) * 2^(exp - 52) and 2^25 <= hi < 2^26, 0 <= lo < 2^27.   *)
(***************************************************************************)
Limb == 2^27

\* the mantissa plus one unit in the last place
NextUp(x) ==
    IF x.lo + 1 < Limb THEN [x EXCEPT !.lo = x.lo + 1]
    ELSE IF x.hi + 1 < 2^26 THEN [x EXCEPT !.hi = x.hi + 1, !.lo = 0]
    ELSE [exp |-> x.exp + 1, hi |-> 2^25, lo |-> 0]

\* round to nearest, ties to even: rest / scale is the fraction cut off
RoundNearestEven(x, rest, scale) ==
    IF 2 * rest > scale \/ (2 * rest = scale /\ x.lo % 2 = 1) THEN NextUp(x) ELSE x

\* k binary digits of r / 1000 (0 <= r < 1000) and the remainder
RECURSIVE DivBits(_, _)
DivBits(r, k) ==
    IF k = 0 THEN [q |-> 0, r |-> r]
    ELSE IF k = 1
    THEN IF 2 * r >= 1000 THEN [q |-> 1, r |-> 2 * r - 1000] ELSE [q |-> 0, r |-> 2 * r]
    ELSE LET first == DivBits(r, k \div 2)
             second == DivBits(first.r, k - k \div 2)
         IN  [q |-> first.q * 2^(k - k \div 2) + second.q, r |-> second.r]

\* n * 2^exp = milli / 1000 with 1000 <= n < 2000
RECURSIVE Scaled(_, _)
Scaled(n, exp) == IF n >= 1000 THEN [n |-> n, exp |-> exp] ELSE Scaled(2 * n, exp - 1)

\* The binary64 number nearest to milli / 1000 (0 < milli < 2000): the value
\* of a decimal literal such as 0.05.
DoubleOf(milli) ==
    LET s == Scaled(milli, 0)
        high == DivBits(s.n - 1000, 25)
        low == DivBits(high.r, 27)
    IN  RoundNearestEven([exp |-> s.exp, hi |-> 2^25 + high.q, lo |-> low.q], low.r, 1000)

\* x + y for x >= y > 0 with x.exp - y.exp <= 26
DoubleAdd(x, y) ==
    LET d == x.exp - y.exp
        yhi == y.hi \div 2^d
        ylo == (y.hi % 2^d) * 2^(27 - d) + y.lo \div 2^d
        rest == y.lo % 2^d
        lo == x.lo + ylo
        hi == x.hi + yhi + lo \div Limb
        sum == [exp |-> x.exp, hi |-> hi, lo |-> lo % Limb]
    IN  IF hi < 2^26
        THEN RoundNearestEven(sum, rest, 2^d)
        ELSE RoundNearestEven([exp |-> x.exp + 1, hi |-> hi \div 2,
                               lo |-> (hi % 2) * 2^26 + sum.lo \div 2],
                              (sum.lo % 2) * 2^d + rest, 2^(d + 1))

DoubleLess(x, y) ==
    \/ x.exp < y.exp
    \/ x.exp = y.exp /\ x.hi < y.hi
    \/ x.exp = y.exp /\ x.hi = y.hi /\ x.lo < y.lo

DoubleLessEq(x, y) == x = y \/ DoubleLess(x, y)

(***************************************************************************)
(* FalseDeclineOptimizer (falseDeclineOptimizer.ts)                        *)
(***************************************************************************)
merchantRiskTolerance == 500
\* in cents
chargebackCost == 2500

\* variant: the loss on fraud leaves out the chargeback cost
calculateExpectedValueNoChargeback(amount, fraudProbability) ==
    LET legitimateProbability == One - fraudProbability
        revenueIfLegit == legitimateProbability * amount
        lossIfFraud == fraudProbability * amount
    IN  revenueIfLegit - lossIfFraud

\* Expected value in thousandths of a cent (the sign is exact).
calculateExpectedValue(amount, fraudProbability) ==
    LET legitimateProbability == One - fraudProbability
        revenueIfLegit == legitimateProbability * amount
        lossIfFraud == fraudProbability * (amount + chargebackCost)
    IN  revenueIfLegit - lossIfFraud

\* variant: a review is declined from fraudProbability 0.7 on (>= for >)
makeOptimizedDecisionFromSeventy(originalDecision, falseDeclineRisk, fraudProbability, expectedValue, confidence) ==
    IF originalDecision = "approve" THEN "approve"
    ELSE IF originalDecision = "decline" /\ falseDeclineRisk > 600 /\ expectedValue > 0
         THEN "review"
    ELSE IF originalDecision = "decline" /\ falseDeclineRisk > 800 /\ fraudProbability < 400
         THEN "approve"
    ELSE IF originalDecision = "review" /\ fraudProbability < 350 /\ confidence > 800
         THEN "approve"
    ELSE IF originalDecision = "review" /\ fraudProbability >= 700
         THEN "decline"
    ELSE originalDecision

makeOptimizedDecision(originalDecision, falseDeclineRisk, fraudProbability, expectedValue, confidence) ==
    IF originalDecision = "approve" THEN "approve"
    ELSE IF originalDecision = "decline" /\ falseDeclineRisk > 600 /\ expectedValue > 0
         THEN "review"
    ELSE IF originalDecision = "decline" /\ falseDeclineRisk > 800 /\ fraudProbability < 400
         THEN "approve"
    ELSE IF originalDecision = "review" /\ fraudProbability < 350 /\ confidence > 800
         THEN "approve"
    ELSE IF originalDecision = "review" /\ fraudProbability > 700
         THEN "decline"
    ELSE originalDecision

\* String#toUpperCase on a decision
toUpperCase(decision) ==
    CASE decision = "approve" -> "APPROVE"
      [] decision = "review" -> "REVIEW"
      [] decision = "decline" -> "DECLINE"

\* Number#toFixed(2) of a dollar amount given in thousandths of a cent: cents
toFixed2(x) == IF x >= 0 THEN (x + 500) \div One ELSE -((500 - x) \div One)

\* A line of the reasoning: its fixed text and the number printed in it
\* (percentages with one decimal are tenths of a percent, dollar amounts
\* with two decimals are cents; 0 for a line without a number).
Line(text, value) == [ text |-> text, value |-> value ]

generateReasoning(prediction, expectedValue, originalDecision, optimizedDecision) ==
    LET assessment ==
            << Line("Original model decision: " \o toUpperCase(originalDecision), 0),
               Line("Fraud probability: %", prediction.fraudProbability),
               Line("False decline risk: %", prediction.falseDeclineRisk) >>
        value ==
            IF expectedValue > 0
            THEN << Line("Positive expected value: $", toFixed2(expectedValue)) >>
            ELSE << Line("Negative expected value: $", toFixed2(expectedValue)) >>
        change ==
            IF originalDecision # optimizedDecision
            THEN IF optimizedDecision = "approve" /\ originalDecision = "decline"
                 THEN << Line("Changed to APPROVE: High false decline risk detected, likely legitimate transaction", 0) >>
                 ELSE IF optimizedDecision = "review" /\ originalDecision = "decline"
                 THEN << Line("Changed to REVIEW: Uncertain, recommend manual verification to avoid false decline", 0) >>
                 ELSE IF optimizedDecision = "approve" /\ originalDecision = "review"
                 THEN << Line("Changed to APPROVE: Low fraud risk with high confidence", 0) >>
                 ELSE << >>
            ELSE << Line("Decision confirmed: " \o toUpperCase(optimizedDecision), 0) >>
        established ==
            IF prediction.features.user_age_days > 400
            THEN << Line("Established user account (trust signal)", 0) >> ELSE << >>
        active ==
            IF prediction.features.user_txn_count_7d > 300
            THEN << Line("Active user with transaction history", 0) >> ELSE << >>
        verified ==
            IF prediction.features.ip_country_match = One
               /\ prediction.features.billing_shipping_match = One
            THEN << Line("Location and address verification passed", 0) >> ELSE << >>
    IN  assessment \o value \o change \o established \o active \o verified

optimize(transaction, prediction) ==
    LET originalDecision == prediction.decision
        falseDeclineRisk == prediction.falseDeclineRisk
        fraudProbability == prediction.fraudProbability
        expectedValue == calculateExpectedValue(transaction.amount, fraudProbability)
        optimizedDecision == makeOptimizedDecision(originalDecision, falseDeclineRisk,
                                 fraudProbability, expectedValue, prediction.confidence)
    IN  [ originalDecision  |-> originalDecision,
          optimizedDecision |-> optimizedDecision,
          confidence        |-> prediction.confidence,
          reasoning         |-> generateReasoning(prediction, expectedValue,
                                    originalDecision, optimizedDecision),
          potentialRevenue  |-> IF expectedValue > 0 THEN transaction.amount ELSE 0,
          riskTolerance     |-> merchantRiskTolerance ]

\* in cents
averageTransactionValue == 15000

\* transactions.map((txn, idx) => this.optimize(txn, predictions[idx]))
batchOptimize(transactions, predictions) ==
    [ idx \in DOMAIN transactions |-> optimize(transactions[idx], predictions[idx]) ]

RECURSIVE SumRevenue(_, _)
SumRevenue(results, chosen) ==
    IF chosen = {} THEN 0
    ELSE LET idx == CHOOSE i \in chosen : TRUE
         IN  results[idx].potentialRevenue + SumRevenue(results, chosen \ {idx})

\* variant: a decline after optimization is counted whatever its label
calculateOptimizationMetricsAnyLabel(results, actualLabels) ==
    LET indices == DOMAIN results
        originalFalseDeclines ==
            Cardinality({ idx \in indices : /\ results[idx].originalDecision = "decline"
                                            /\ ~actualLabels[idx].isFraud })
        optimizedFalseDeclines ==
            Cardinality({ idx \in indices : results[idx].optimizedDecision = "decline" })
        recovered == { idx \in indices : /\ results[idx].originalDecision # "approve"
                                         /\ results[idx].optimizedDecision = "approve"
                                         /\ ~actualLabels[idx].isFraud }
        lost == { idx \in indices : /\ results[idx].originalDecision = "decline"
                                    /\ results[idx].optimizedDecision = "approve"
                                    /\ actualLabels[idx].isFraud }
        revenueRecovered == SumRevenue(results, recovered)
        newFraudLosses == SumRevenue(results, lost) + Cardinality(lost) * chargebackCost
        totalTransactions == Len(results)
    IN  [ falseDeclineRate      |-> [ num |-> optimizedFalseDeclines, den |-> totalTransactions ],
          falseDeclineReduction |-> [ num |-> originalFalseDeclines - optimizedFalseDeclines,
                                      den |-> totalTransactions ],
          revenueRecovered      |-> revenueRecovered,
          fraudRiskIncrease     |-> [ num |-> newFraudLosses,
                                      den |-> totalTransactions * averageTransactionValue ],
          netRevenueBenefit     |-> revenueRecovered - newFraudLosses ]

\* calculateOptimizationMetrics with actual labels. The three rates are kept
\* as the fraction the code divides out: originalFDRate - optimizedFDRate has
\* the sign of originalFalseDeclines - optimizedFalseDeclines, both rates
\* being over the same positive totalTransactions.
calculateOptimizationMetrics(results, actualLabels) ==
    LET indices == DOMAIN results
        originalFalseDeclines ==
            Cardinality({ idx \in indices : /\ results[idx].originalDecision = "decline"
                                            /\ ~actualLabels[idx].isFraud })
        optimizedFalseDeclines ==
            Cardinality({ idx \in indices : /\ results[idx].optimizedDecision = "decline"
                                            /\ ~actualLabels[idx].isFraud })
        recovered == { idx \in indices : /\ results[idx].originalDecision # "approve"
                                         /\ results[idx].optimizedDecision = "approve"
                                         /\ ~actualLabels[idx].isFraud }
        lost == { idx \in indices : /\ results[idx].originalDecision = "decline"
                                    /\ results[idx].optimizedDecision = "approve"
                                    /\ actualLabels[idx].isFraud }
        revenueRecovered == SumRevenue(results, recovered)
        newFraudLosses == SumRevenue(results, lost) + Cardinality(lost) * chargebackCost
        totalTransactions == Len(results)
    IN  [ falseDeclineRate      |-> [ num |-> optimizedFalseDeclines, den |-> totalTransactions ],
          falseDeclineReduction |-> [ num |-> originalFalseDeclines - optimizedFalseDeclines,
                                      den |-> totalTransactions ],
          revenueRecovered      |-> revenueRecovered,
          fraudRiskIncrease     |-> [ num |-> newFraudLosses,
                                      den |-> totalTransactions * averageTransactionValue ],
          netRevenueBenefit     |-> revenueRecovered - newFraudLosses ]

\* pred.adjustedScore < threshold; the score is the binary64 number nearest
\* to its decimal value
ScoreLess(score, threshold) == score = 0 \/ DoubleLess(DoubleOf(score), threshold)

\* Net revenue in cents of the predictions under the two thresholds; a
\* review counts 70% of the revenue and 30% of the loss.
RECURSIVE simulateNetRevenue(_, _, _)
simulateNetRevenue(data, approveThreshold, declineThreshold) ==
    IF data = << >> THEN 0
    ELSE LET pred == Head(data)
             amount == averageTransactionValue
             term == IF ScoreLess(pred.adjustedScore, approveThreshold)
                     THEN IF pred.isFraud THEN -(amount + chargebackCost) ELSE amount
                     ELSE IF ScoreLess(pred.adjustedScore, declineThreshold)
                     THEN IF pred.isFraud THEN -(((amount + chargebackCost) * 3) \div 10)
                                          ELSE (amount * 7) \div 10
                     ELSE 0
         IN  term + simulateNetRevenue(Tail(data), approveThreshold, declineThreshold)

\* the literals of the two for loops
GridStep == DoubleOf(50)
ApproveFrom == DoubleOf(200)
ApproveTo == DoubleOf(400)
DeclineFrom == DoubleOf(500)
DeclineTo == DoubleOf(700)

\* for (declineT = ...; declineT <= 0.7; declineT += 0.05); best.unset
\* stands for maxNetRevenue = -Infinity
RECURSIVE declineLoop(_, _, _, _)
declineLoop(data, approveT, declineT, best) ==
    IF ~DoubleLessEq(declineT, DeclineTo) THEN best
    ELSE LET netRevenue == simulateNetRevenue(data, approveT, declineT)
             better == IF best.unset \/ netRevenue > best.maxNetRevenue
                       THEN [ approveThreshold |-> approveT,
                              declineThreshold |-> declineT,
                              maxNetRevenue |-> netRevenue, unset |-> FALSE ]
                       ELSE best
         IN  declineLoop(data, approveT, DoubleAdd(declineT, GridStep), better)

\* for (approveT = 0.2; approveT <= 0.4; approveT += 0.05)
RECURSIVE approveLoop(_, _, _)
approveLoop(data, approveT, best) ==
    IF ~DoubleLessEq(approveT, ApproveTo) THEN best
    ELSE approveLoop(data, DoubleAdd(approveT, GridStep),
                     declineLoop(data, approveT, DeclineFrom, best))

optimizeThresholds(data) ==
    LET best == approveLoop(data, ApproveFrom,
                            [ approveThreshold |-> DoubleOf(300),
                              declineThreshold |-> DoubleOf(600),
                              maxNetRevenue |-> 0, unset |-> TRUE ])
    IN  [ approveThreshold |-> best.approveThreshold,
          declineThreshold |-> best.declineThreshold ]

(***************************************************************************)
(* MLService (mlService.ts)                                                *)
(***************************************************************************)
\* variant: evicts the newest prediction (pop) instead of the oldest (shift)
logPredictionDropNewest(log, prediction) ==
    LET pushed == Append(log, prediction)
    IN  IF Len(pushed) > PredictionLogLimit
        THEN SubSeq(pushed, 1, Len(pushed) - 1) ELSE pushed

logPrediction(log, prediction) ==
    LET pushed == Append(log, prediction)
    IN  IF Len(pushed) > PredictionLogLimit THEN Tail(pushed) ELSE pushed

\* Array#slice(start): a negative start counts from the end, and -0 is 0
slice(array, start) ==
    LET from == IF start < 0 THEN Max(Len(array) + start, 0) ELSE Min(start, Len(array))
    IN  SubSeq(array, from + 1, Len(array))

\* this.predictionHistory.slice(-limit)
getPredictionHistory(log, limit) == slice(log, 0 - limit)

\* Array#reduce((sum, p) => sum + p[field], 0)
RECURSIVE SumOver(_, _)
SumOver(log, field) ==
    IF log = << >> THEN 0 ELSE Head(log)[field] + SumOver(Tail(log), field)

\* Rates are percentages in thousandths; avgRiskScore is in thousandths.
getRealTimeStats(log) ==
    LET total == Len(log)
    IN  IF total = 0
        THEN [ totalPredictions |-> 0, approvalRate |-> 0,
               avgRiskScore |-> 0, falseDeclineRate |-> 0 ]
        ELSE LET approved == Len(SelectSeq(log, LAMBDA p : p.decision = "approve"))
                 riskSum == SumOver(log, "riskScore")
                 fdSum == SumOver(log, "falseDeclineRisk")
             IN  [ totalPredictions |-> total,
                   approvalRate     |-> (approved * 100 * One) \div total,
                   avgRiskScore     |-> (riskSum * One) \div total,
                   falseDeclineRate |-> (fdSum * 100) \div total ]

\* variant: the history is updated before the features are extracted
assessRiskRecordFirst(hist, cache, log, clock, rnd1, rnd2, t) ==
    LET recorded == updateUserHistory(hist, t)
        ex == extractFeatures(recorded, cache, clock, rnd1, t)
        pr == predict(recorded, ex.cache, clock, rnd2, t)
        explanation == explain(ex.features, pr.prediction.fraudProbability)
        prediction == [pr.prediction EXCEPT !.explanation = explanation]
        optimization == optimize(t, prediction)
    IN  [ hist  |-> recorded,
          cache |-> pr.cache,
          log   |-> logPrediction(log, prediction),
          prediction   |-> prediction,
          optimization |-> optimization ]

\* The body of assessRisk.  It contains no await, so it runs to completion
\* when the call is made.  rnd1 and rnd2 are the outcomes of the random
\* source in the two feature extractions (mlService.ts:44 and
\* fraudDetectionModel.ts:99).
assessRisk(hist, cache, log, clock, rnd1, rnd2, t) ==
    LET ex == extractFeatures(hist, cache, clock, rnd1, t)
        pr == predict(hist, ex.cache, clock, rnd2, t)
        explanation == explain(ex.features, pr.prediction.fraudProbability)
        prediction == [pr.prediction EXCEPT !.explanation = explanation]
        optimization == optimize(t, prediction)
    IN  [ hist  |-> updateUserHistory(hist, t),
          cache |-> pr.cache,
          log   |-> logPrediction(log, prediction),
          prediction   |-> prediction,
          optimization |-> optimization ]

\* compareModels: the recommendation text and the two percentages it prints
\* ((confidence * 100).toFixed(1), here in tenths of a percent)
compareModels(predA, predB) ==
    LET scoreDiff == Abs(predA.riskScore - predB.riskScore)
    IN  IF scoreDiff < 5
        THEN [ text |-> "Models agree (similar scores)", percents |-> << >> ]
        ELSE IF predA.confidence > predB.confidence
        THEN [ text |-> "Model A more confident",
               percents |-> <<predA.confidence, predB.confidence>> ]
        ELSE [ text |-> "Model B more confident",
               percents |-> <<predB.confidence, predA.confidence>> ]

\* abTest: ModelFactory.getModel builds every version with the default
\* configuration, so both instances score like predict; each predict call
\* extracts the features anew (rndA, rndB) through the shared feature store.
abTest(hist, cache, clock, rndA, rndB, t) ==
    LET predictionA == predict(hist, cache, clock, rndA, t)
        predictionB == predict(hist, predictionA.cache, clock, rndB, t)
    IN  [ modelA |-> predictionA.prediction,
          modelB |-> predictionB.prediction,
          recommendation |-> compareModels(predictionA.prediction, predictionB.prediction),
          cache |-> predictionB.cache ]

\* batchPredict (fraudDetectionModel.ts:328): predict applied in input order;
\* rnds[i] is the outcome of the random source for the i-th transaction.
RECURSIVE batchPredict(_, _, _, _, _)
batchPredict(hist, cache, clock, rnds, transactions) ==
    IF transactions = <<>>
    THEN [ predictions |-> <<>>, cache |-> cache ]
    ELSE LET pr == predict(hist, cache, clock, Head(rnds), Head(transactions))
             rest == batchPredict(hist, pr.cache, clock, Tail(rnds), Tail(transactions))
         IN  [ predictions |-> <<pr.prediction>> \o rest.predictions,
               cache |-> rest.cache ]

batchAssessRisk(hist, cache, log, clock, rnds, transactions) ==
    LET bp == batchPredict(hist, cache, clock, rnds, transactions)
    IN  [ hist  |-> hist,
          cache |-> bp.cache,
          log   |-> log,
          predictions   |-> bp.predictions,
          optimizations |-> [i \in 1 .. Len(transactions) |->
                                optimize(transactions[i], bp.predictions[i])] ]

(***************************************************************************)
(* State machine                                                            *)
(***************************************************************************)
(***************************************************************************)
(* Wallet store and connection hook (walletStore.ts, useWeb3.ts)           *)
(***************************************************************************)
Null == "null"

Accounts == {"0xA", "0xB"}

\* ChainId.ETHEREUM_MAINNET and a chain that is not in SUPPORTED_NETWORKS
ChainIds == {"0x1", "0x63"}

isNetworkSupported(chainId) == chainId = "0x1"

\* provider.getBalance(address): the balance on chain, in tenths of an ether
\* (the source has wei)
getBalance(address) == IF address = "0xA" THEN 15 ELSE 20

\* ethers.utils.formatEther: the decimal string of the amount in ether
formatEther(userBalance) == ToString(userBalance \div 10) \o "." \o ToString(userBalance % 10)

initialState ==
    [ address |-> Null, isConnected |-> FALSE, chainId |-> Null, balance |-> Null,
      provider |-> Null ]

\* set({ ...initialState, error: null, isConnecting: false })
reset(store) ==
    [ address |-> initialState.address, isConnected |-> initialState.isConnected,
      chainId |-> initialState.chainId, balance |-> initialState.balance,
      provider |-> initialState.provider, error |-> Null, isConnecting |-> FALSE ]

setItem(storage, key, value) ==
    [ k \in DOMAIN storage \cup {key} |-> IF k = key THEN value ELSE storage[k] ]

removeItem(storage, key) == [ k \in DOMAIN storage \ {key} |-> storage[k] ]

\* the sequence without its i-th element
RemoveAt(seq, i) == SubSeq(seq, 1, i - 1) \o SubSeq(seq, i + 1, Len(seq))

\* A fresh page: the store as created, nothing saved (so the reconnect effect
\* of useWeb3.ts:184-209 does nothing), no call in flight, and the extension
\* unlocked on its first account.
WalletInit ==
    /\ walletStore = reset(initialState)
    /\ localStorage = << >>
    /\ pending = << >>
    /\ selected = "0xA"

NoOp == [ op |-> "none", txns |-> <<>>, predictions |-> <<>>, optimizations |-> <<>> ]

NoProbe == [ kind |-> "none", score |-> 0, decision |-> "approve", falseDeclineRisk |-> 0,
             fraudProbability |-> 0, confidence |-> 0, amount |-> 0 ]

Init ==
    /\ userTransactionHistory = << >>
    /\ WalletInit
    /\ featureCache = << >>
    /\ predictionHistory = << >>
    /\ now = NowStart
    /\ calls = 0
    /\ inflight = << >>
    /\ lastOp = NoOp
    /\ probe = NoProbe

\* mlService.assessRisk(t).  The body runs synchronously when the call is
\* made.  With awaited = TRUE the caller awaits the call (MLSystem.tsx:55) and
\* consumes the result before anything else runs; with awaited = FALSE the
\* returned promise stays in flight until Deliver.
AssessRiskCall(awaited) ==
    /\ calls < MaxCalls
    /\ \E t \in Txns, rnd \in RandomPairs :
         \E r \in { assessRisk(userTransactionHistory, featureCache, predictionHistory,
                                now, rnd[1], rnd[2], t) } :
             /\ userTransactionHistory' = r.hist
             /\ featureCache' = r.cache
             /\ predictionHistory' = r.log
             /\ inflight' = IF awaited THEN inflight
                            ELSE Append(inflight, [txn |-> t, prediction |-> r.prediction])
             /\ lastOp' = [ op |-> "assessRisk", txns |-> <<t>>,
                            predictions |-> <<r.prediction>>,
                            optimizations |-> <<r.optimization>> ]
    /\ calls' = calls + 1
    /\ UNCHANGED <<walletVars, now, probe>>

AssessRisk == AssessRiskCall(TRUE)

StartAssessRisk == AssessRiskCall(FALSE)

\* limits up to one more than the log can hold
HistoryLimits == 0 .. PredictionLogLimit + 1

\* mlService.getPredictionHistory(limit)
GetPredictionHistory ==
    /\ \E limit \in HistoryLimits :
         lastOp' = [ op |-> "getPredictionHistory", txns |-> <<>>,
                     predictions |-> getPredictionHistory(predictionHistory, limit),
                     optimizations |-> <<>>, limit |-> limit ]
    /\ UNCHANGED <<walletVars, userTransactionHistory, featureCache, predictionHistory, now,
                   calls, inflight, probe>>

NextHistory == AssessRisk \/ GetPredictionHistory

SpecHistory == Init /\ [][NextHistory]_vars

\* The consumer of the oldest promise in flight runs.
Deliver ==
    /\ inflight # << >>
    /\ inflight' = Tail(inflight)
    /\ UNCHANGED <<walletVars, userTransactionHistory, featureCache, predictionHistory, now,
                   calls, lastOp, probe>>

\* FeatureEngineer.updateUserHistory(t) called directly ("record") with a
\* transaction of txns.
RecordFrom(txns) ==
    /\ calls < MaxCalls
    /\ \E t \in txns :
         /\ userTransactionHistory' = updateUserHistory(userTransactionHistory, t)
         /\ lastOp' = [ op |-> "record", txns |-> <<t>>,
                        predictions |-> <<>>, optimizations |-> <<>> ]
    /\ calls' = calls + 1
    /\ UNCHANGED <<walletVars, featureCache, predictionHistory, now, inflight, probe>>

Record == RecordFrom(Txns)

Tick ==
    /\ now + TickHours <= NowStart + MaxTicks * TickHours
    /\ now' = now + TickHours
    /\ UNCHANGED <<walletVars, userTransactionHistory, featureCache, predictionHistory,
                   calls, inflight, lastOp, probe>>

Next == AssessRisk \/ Record \/ Tick

Spec == Init /\ [][Next]_vars

(***************************************************************************)
(* Concurrent callers: several assessRisk promises in flight               *)
(***************************************************************************)
NextConcurrent == StartAssessRisk \/ Deliver

SpecConcurrent == Init /\ [][NextConcurrent]_vars

(***************************************************************************)
(* Batch assessment                                                         *)
(***************************************************************************)
Batches == { <<TxnA1, TxnA2>>, <<TxnBad, TxnA2>>, <<TxnBad>> }

BatchAssessRisk ==
    /\ calls < MaxCalls
    /\ \E b \in Batches : \E rnds \in [1 .. Len(b) -> RandomDraws] :
         \E r \in { batchAssessRisk(userTransactionHistory, featureCache,
                                     predictionHistory, now, rnds, b) } :
             /\ userTransactionHistory' = r.hist
             /\ featureCache' = r.cache
             /\ predictionHistory' = r.log
             /\ lastOp' = [ op |-> "batchAssessRisk", txns |-> b,
                            predictions |-> r.predictions,
                            optimizations |-> r.optimizations ]
    /\ calls' = calls + 1
    /\ UNCHANGED <<walletVars, now, inflight, probe>>

NextBatch == BatchAssessRisk \/ Record \/ Tick

SpecBatch == Init /\ [][NextBatch]_vars

(***************************************************************************)
(* Feature extraction called directly                                       *)
(***************************************************************************)
\* FeatureEngineer.extractFeatures(t) with a transaction of txns
ExtractFeaturesFrom(txns) ==
    /\ calls < MaxCalls
    /\ \E t \in txns, rnd \in RandomDraws :
         \E r \in { extractFeatures(userTransactionHistory, featureCache, now, rnd, t) } :
             /\ userTransactionHistory' = r.hist
             /\ featureCache' = r.cache
             /\ lastOp' = [ op |-> "extractFeatures", txns |-> <<t>>,
                            predictions |-> <<[features |-> r.features]>>,
                            optimizations |-> <<>> ]
    /\ calls' = calls + 1
    /\ UNCHANGED <<walletVars, predictionHistory, now, inflight, probe>>

ExtractFeatures == ExtractFeaturesFrom(Txns)

NextExtract == ExtractFeatures \/ Record \/ Tick

SpecExtract == Init /\ [][NextExtract]_vars

(***************************************************************************)
(* Several customers, with and without a customer id                        *)
(***************************************************************************)
\* a second transaction without a customer id, and one of another customer
TxnAnon == [id |-> 4, timestamp |-> 990, amount |-> 2000,
            paymentMethod |-> "card", merchantName |-> "Amazon", customerId |-> ""]
TxnBob == [id |-> 5, timestamp |-> 995, amount |-> 7000,
           paymentMethod |-> "card", merchantName |-> "Steam", customerId |-> "bob"]

CustomerTxns == {TxnA1, TxnBad, TxnAnon, TxnBob}

RecordCustomer == RecordFrom(CustomerTxns)

ExtractCustomer == ExtractFeaturesFrom(CustomerTxns)

NextCustomers == RecordCustomer \/ ExtractCustomer

SpecCustomers == Init /\ [][NextCustomers]_vars

(***************************************************************************)
(* A/B test of two model versions                                           *)
(***************************************************************************)
\* Outcomes of the random source for abTest: the age draw and the device
\* draws are separate calls of Math.random, so a low age draw also occurs
\* with high device draws.
ABDraws == RandomDraws \cup { [age |-> 0, device |-> 900, ip |-> 900, billing |-> 900] }

\* mlService.abTest(t, modelA, modelB)
ABTest ==
    /\ calls < MaxCalls
    /\ \E t \in Txns, rndA \in ABDraws, rndB \in ABDraws :
         \E r \in { abTest(userTransactionHistory, featureCache, now, rndA, rndB, t) } :
             /\ featureCache' = r.cache
             /\ lastOp' = [ op |-> "abTest", txns |-> <<t>>,
                            predictions |-> <<r.modelA, r.modelB>>,
                            optimizations |-> << >>,
                            recommendation |-> r.recommendation ]
    /\ calls' = calls + 1
    /\ UNCHANGED <<walletVars, userTransactionHistory, predictionHistory, now, inflight, probe>>

NextABTest == ABTest \/ Record \/ Tick

SpecABTest == Init /\ [][NextABTest]_vars

(***************************************************************************)
(* Pure functions on synthetic inputs                                       *)
(***************************************************************************)
ProbeScores == {0, 299, 300, 450, 599, 600, 1000}
ProbeDecisions == {"approve", "review", "decline"}
ProbeRisks == {0, 600, 601, 800, 801, 900}
ProbeProbabilities == {50, 200, 349, 350, 399, 400, 700, 701, 800}
ProbeConfidences == {700, 800, 801, 1000}
ProbeAmounts == {100, 10000}

\* a score for makeDecision
ScoreProbes ==
    [ kind : {"score"}, score : ProbeScores, decision : {"approve"},
      falseDeclineRisk : {0}, fraudProbability : {0}, confidence : {0}, amount : {0} ]

\* a history of sixteen transactions within the last week
ActiveHistory == [u \in {"alice"} |-> [i \in 1 .. 16 |-> TxnA2]]

\* feature vectors of a new and of an established, active customer
ProbeFeatures ==
    { extractFeatures(<< >>, << >>, NowStart,
                      [age |-> 0, device |-> 0, ip |-> 0, billing |-> 0], TxnA1).features,
      extractFeatures(ActiveHistory, << >>, NowStart,
                      [age |-> 600, device |-> 900, ip |-> 900, billing |-> 900], TxnA1).features }

\* three of the features, for objects with fewer than five entries
PartialKeys == {"amount_log", "is_crypto", "hour_of_day"}

\* feature vectors and probabilities for explain
ExplainFeatures ==
    { extractFeatures(h, << >>, NowStart, rnd, t).features :
          h \in {<< >>, ActiveHistory}, rnd \in RandomDraws, t \in Txns }
    \cup { [k \in PartialKeys |-> f[k]] : f \in ProbeFeatures }

ExplainProbabilities == {0, 150, 151, 500, 1000}

ExplainProbes ==
    [ kind : {"explain"}, score : {0}, decision : {"approve"},
      falseDeclineRisk : {0}, fraudProbability : ExplainProbabilities,
      confidence : {0}, amount : {0}, features : ExplainFeatures ]

\* root features of some trees that no other rule of the scorer reads
DroppedKeys == {"device_age_days", "hour_of_day"}

\* feature objects for predictFraudProbability: complete ones and ones that
\* lack a feature the trees split on
ScoringProbes ==
    [ kind : {"scoring"},
      features : ProbeFeatures \cup
                 { [k \in DOMAIN f \ {d} |-> f[k]] : f \in ProbeFeatures, d \in DroppedKeys } ]

\* adjusted scores of historical predictions: approved, reviewed and
\* declined under the default thresholds, and one between 0.65 and 0.7
HistoricalScores == {100, 380, 600, 680}

HistoricalPredictions == [ adjustedScore : HistoricalScores, isFraud : BOOLEAN ]

\* historical data of at most two predictions for optimizeThresholds
ThresholdProbes ==
    [ kind : {"thresholds"},
      data : {<< >>} \cup { <<p>> : p \in HistoricalPredictions }
                    \cup { <<p, q>> : p \in HistoricalPredictions, q \in HistoricalPredictions } ]

\* the six features adjustFraudProbability reads, on both sides of each test
RuleFeatures ==
    [ is_crypto : {0, One}, amount_ratio_vs_avg : {800, 801},
      is_first_transaction : {0, One}, amount_log : {700, 701},
      user_age_days : {500, 501}, user_txn_count_7d : {300, 301} ]

\* a base probability and a feature object for adjustFraudProbability
AdjustProbes ==
    [ kind : {"adjust"}, fraudProbability : {0, 300, 700, 800, 1000},
      features : RuleFeatures ]

\* feature vectors within the documented ranges that steer the trees, the
\* rule adjustments and the false-decline risk to their extremes
VectorFeatures ==
    [ amount : {1}, amount_log : {0, 299, 701}, hour_of_day : {0}, day_of_week : {0},
      is_weekend : {0}, user_age_days : {0, 501}, user_txn_count_24h : {0, 700},
      user_txn_count_7d : {0, 301}, user_avg_amount_30d : {0},
      user_txn_frequency : {0, 401}, is_first_transaction : {0, One},
      amount_ratio_vs_avg : {0, 801}, time_since_last_txn_minutes : {0},
      device_age_days : {0}, ip_country_match : {0, One},
      billing_shipping_match : {0, One}, merchant_fraud_rate_30d : {0},
      merchant_avg_amount : {0}, payment_method_risk_score : {0}, is_crypto : {0, One} ]

\* a feature vector and a transaction amount for the scoring chain
VectorProbes == [ kind : {"vector"}, amount : ProbeAmounts, features : VectorFeatures ]

\* predictions on both sides of every test of makeOptimizedDecision
LabelledPredictions ==
    [ decision : ProbeDecisions, falseDeclineRisk : {0, 900},
      fraudProbability : {200, 700, 800}, confidence : {1000}, amount : {10000},
      features : { CHOOSE f \in ProbeFeatures : TRUE }, isFraud : BOOLEAN ]

\* one or two predictions with their ground-truth labels
MetricProbes ==
    [ kind : {"metrics"},
      data : { <<p>> : p \in LabelledPredictions }
                 \cup { <<p, q>> : p \in LabelledPredictions, q \in LabelledPredictions } ]

\* a fraud probability, a false-decline risk and a configured weight
WeightProbes ==
    [ kind : {"weight"}, fraudProbability : ProbeScores,
      falseDeclineRisk : {0, 500, 1000}, weight : {0, 300, 1000} ]

\* a synthetic prediction and a transaction amount for optimize
PredictionProbes ==
    [ kind : {"prediction"}, score : {0}, decision : ProbeDecisions,
      falseDeclineRisk : ProbeRisks, fraudProbability : ProbeProbabilities,
      confidence : ProbeConfidences, amount : ProbeAmounts,
      features : ProbeFeatures ]

InitProbe ==
    /\ userTransactionHistory = << >>
    /\ WalletInit
    /\ featureCache = << >>
    /\ predictionHistory = << >>
    /\ now = NowStart
    /\ calls = 0
    /\ inflight = << >>
    /\ lastOp = NoOp
    /\ probe \in ScoreProbes \cup PredictionProbes \cup ExplainProbes \cup ScoringProbes
                \cup ThresholdProbes \cup AdjustProbes \cup VectorProbes
                \cup WeightProbes \cup MetricProbes \cup {NoProbe}

\* makeDecision applied to the probe's score
Decide ==
    /\ probe.kind = "score"
    /\ lastOp' = [ op |-> "makeDecision", txns |-> <<>>,
                   predictions |-> <<[adjustedScore |-> probe.score,
                                      decision |-> makeDecision(probe.score)]>>,
                   optimizations |-> <<>> ]
    /\ UNCHANGED <<walletVars, userTransactionHistory, featureCache, predictionHistory, now,
                   calls, inflight, probe>>

\* optimize applied to the probe's synthetic prediction
Optimize ==
    /\ probe.kind = "prediction"
    /\ lastOp' = [ op |-> "optimize", txns |-> <<>>,
                   predictions |-> <<>>,
                   optimizations |-> <<optimize([amount |-> probe.amount], probe)>> ]
    /\ UNCHANGED <<walletVars, userTransactionHistory, featureCache, predictionHistory, now,
                   calls, inflight, probe>>

\* FraudDetectionModel.predict(t) on the initial state of the feature store
Predict ==
    /\ probe.kind = "none"
    /\ calls < MaxCalls
    /\ \E t \in Txns, rnd \in RandomDraws :
         \E pr \in { predict(userTransactionHistory, featureCache, now, rnd, t) } :
             /\ featureCache' = pr.cache
             /\ lastOp' = [ op |-> "predict", txns |-> <<t>>,
                            predictions |-> <<pr.prediction>>,
                            optimizations |-> <<>> ]
    /\ calls' = calls + 1
    /\ UNCHANGED <<walletVars, userTransactionHistory, predictionHistory, now, inflight, probe>>

\* globalSHAPExplainer.explain applied to the probe's features and probability
Explain ==
    /\ probe.kind = "explain"
    /\ lastOp' = [ op |-> "explain", txns |-> <<>>,
                   predictions |-> <<[ features |-> probe.features,
                                       fraudProbability |-> probe.fraudProbability,
                                       explanation |-> explain(probe.features,
                                                               probe.fraudProbability) ]>>,
                   optimizations |-> <<>> ]
    /\ UNCHANGED <<walletVars, userTransactionHistory, featureCache, predictionHistory, now,
                   calls, inflight, probe>>

\* predictFraudProbability applied to the probe's feature object
PredictFraudProbability ==
    /\ probe.kind = "scoring"
    /\ lastOp' = [ op |-> "predictFraudProbability", txns |-> <<>>,
                   predictions |-> <<scoreOutcome(probe.features)>>,
                   optimizations |-> <<>> ]
    /\ UNCHANGED <<walletVars, userTransactionHistory, featureCache, predictionHistory, now,
                   calls, inflight, probe>>

\* optimizeThresholds applied to the probe's historical data
OptimizeThresholds ==
    /\ probe.kind = "thresholds"
    /\ lastOp' = [ op |-> "optimizeThresholds", txns |-> <<>>,
                   predictions |-> <<>>,
                   optimizations |-> <<optimizeThresholds(probe.data)>> ]
    /\ UNCHANGED <<walletVars, userTransactionHistory, featureCache, predictionHistory, now,
                   calls, inflight, probe>>

\* adjustFraudProbability applied to the probe's probability and features
AdjustFraudProbability ==
    /\ probe.kind = "adjust"
    /\ lastOp' = [ op |-> "adjustFraudProbability", txns |-> <<>>,
                   predictions |-> <<[ fraudProbability |->
                       adjustFraudProbability(probe.fraudProbability, probe.features) ]>>,
                   optimizations |-> <<>> ]
    /\ UNCHANGED <<walletVars, userTransactionHistory, featureCache, predictionHistory, now,
                   calls, inflight, probe>>

\* The scoring chain of predict on the probe's feature vector, followed by
\* optimize as in assessRisk.
ScoreVector ==
    /\ probe.kind = "vector"
    /\ \E prediction \in { scoreFeatures(0, probe.features) } :
         lastOp' = [ op |-> "scoreVector", txns |-> <<>>,
                     predictions |-> <<prediction>>,
                     optimizations |-> <<optimize([amount |-> probe.amount], prediction)>> ]
    /\ UNCHANGED <<walletVars, userTransactionHistory, featureCache, predictionHistory, now,
                   calls, inflight, probe>>

\* adjustScoreForFalseDecline and makeDecision in a model created with the
\* probe's weight
AdjustScore ==
    /\ probe.kind = "weight"
    /\ \E adjustedScore \in { adjustScoreWeighted(probe.fraudProbability,
                                 probe.falseDeclineRisk, configuredWeight(probe.weight)) } :
         lastOp' = [ op |-> "adjustScore", txns |-> <<>>,
                     predictions |-> <<[ adjustedScore |-> adjustedScore,
                                         decision |-> makeDecision(adjustedScore) ]>>,
                     optimizations |-> <<>> ]
    /\ UNCHANGED <<walletVars, userTransactionHistory, featureCache, predictionHistory, now,
                   calls, inflight, probe>>

\* batchOptimize on the probe's predictions, then calculateOptimizationMetrics
\* of the results under the probe's labels
CalculateOptimizationMetrics ==
    /\ probe.kind = "metrics"
    /\ \E results \in { batchOptimize([ i \in DOMAIN probe.data |->
                                            [amount |-> probe.data[i].amount] ],
                                        probe.data) } :
         lastOp' = [ op |-> "metrics", txns |-> <<>>, predictions |-> <<>>,
                     optimizations |-> results,
                     metrics |-> calculateOptimizationMetrics(results, probe.data) ]
    /\ UNCHANGED <<walletVars, userTransactionHistory, featureCache, predictionHistory, now,
                   calls, inflight, probe>>

NextProbe ==
    \/ Decide \/ Optimize \/ Explain \/ Predict
    \/ PredictFraudProbability \/ OptimizeThresholds \/ AdjustFraudProbability
    \/ ScoreVector \/ AdjustScore \/ CalculateOptimizationMetrics

SpecProbe == InitProbe /\ [][NextProbe]_vars

(***************************************************************************)
(* useWeb3 (useWeb3.ts).  The callbacks of the hook close over the store   *)
(* values of the render that created them.  The store notifies React       *)
(* synchronously, so when a callback starts these are the values of the    *)
(* store at that moment, and they stay the callback's values while it      *)
(* runs.                                                                   *)
(***************************************************************************)
mlVars == <<userTransactionHistory, featureCache, predictionHistory, now, inflight, probe>>

WalletOp(op, accounts, completed, switched, fetched) ==
    [ op |-> op, txns |-> <<>>, predictions |-> <<>>, optimizations |-> <<>>,
      accounts |-> accounts, completed |-> completed, switched |-> switched,
      fetched |-> fetched ]

Promise(call, awaiting, address, handler, accounts) ==
    [ call |-> call, awaiting |-> awaiting, address |-> address, handler |-> handler,
      accounts |-> accounts ]

\* window.ethereum is present in a page that receives wallet events
isMetaMaskInstalled == TRUE

\* connect(), up to its first await
Connect ==
    /\ calls < MaxCalls
    /\ calls' = calls + 1
    /\ IF ~isMetaMaskInstalled
       THEN /\ walletStore' = [walletStore EXCEPT !.error = "MetaMask is not installed"]
            /\ pending' = pending
       ELSE /\ walletStore' = [walletStore EXCEPT !.isConnecting = TRUE, !.error = Null]
            /\ pending' = Append(pending, Promise("connect", "eth_requestAccounts",
                                                  Null, "none", <<>>))
    /\ lastOp' = WalletOp("connect", <<>>, ~isMetaMaskInstalled, FALSE, FALSE)
    /\ UNCHANGED <<mlVars, localStorage, selected>>

\* connect(): the catch and finally blocks
connectFailed(store, message) == [store EXCEPT !.error = message, !.isConnecting = FALSE]

\* connect(): eth_requestAccounts settles.  The user approves (the extension
\* keeps or picks an account), rejects (code 4001), or no account comes back.
ConnectAccounts ==
    \E i \in DOMAIN pending :
        /\ pending[i].call = "connect" /\ pending[i].awaiting = "eth_requestAccounts"
        /\ \E outcome \in {"approved", "rejected", "empty"} :
             \/ /\ outcome = "approved"
                /\ \E account \in Accounts :
                     selected' = IF selected = Null THEN account ELSE selected
                /\ walletStore' = walletStore
                /\ pending' = [pending EXCEPT ![i].awaiting = "getAddress"]
                /\ lastOp' = WalletOp("connect", <<>>, FALSE, FALSE, FALSE)
             \/ /\ outcome = "rejected"
                /\ walletStore' = connectFailed(walletStore,
                                                "Connection request rejected by user")
                /\ pending' = RemoveAt(pending, i)
                /\ lastOp' = WalletOp("connect", <<>>, TRUE, FALSE, FALSE)
                /\ selected' = selected
             \/ /\ outcome = "empty"
                /\ walletStore' = connectFailed(walletStore,
                                                "No accounts returned from MetaMask")
                /\ pending' = RemoveAt(pending, i)
                /\ lastOp' = WalletOp("connect", <<>>, TRUE, FALSE, FALSE)
                /\ selected' = selected
        /\ UNCHANGED <<mlVars, calls, localStorage>>

\* connect(): signer.getAddress() settles with the account selected now, or
\* throws when the extension has none
ConnectAddress ==
    \E i \in DOMAIN pending :
        /\ pending[i].call = "connect" /\ pending[i].awaiting = "getAddress"
        /\ IF selected = Null
           THEN /\ walletStore' = connectFailed(walletStore, "unknown account #0")
                /\ pending' = RemoveAt(pending, i)
                /\ lastOp' = WalletOp("connect", <<>>, TRUE, FALSE, FALSE)
           ELSE /\ walletStore' = walletStore
                /\ pending' = [pending EXCEPT ![i].awaiting = "getBalance",
                                              ![i].address = selected]
                /\ lastOp' = WalletOp("connect", <<>>, FALSE, FALSE, FALSE)
        /\ UNCHANGED <<mlVars, calls, localStorage, selected>>

\* connect(): getNetwork and getBalance have settled; the rest of the body
ConnectBalance ==
    \E i \in DOMAIN pending :
        /\ pending[i].call = "connect" /\ pending[i].awaiting = "getBalance"
        /\ \E chainIdHex \in ChainIds :
             LET userAddress == pending[i].address
                 userBalance == getBalance(userAddress)
             IN  /\ walletStore' =
                        [ address |-> userAddress,
                          isConnected |-> TRUE,
                          chainId |-> chainIdHex,
                          balance |-> formatEther(userBalance),
                          provider |-> "web3Provider",
                          error |-> IF isNetworkSupported(chainIdHex) THEN walletStore.error
                                    ELSE "Unsupported network",
                          isConnecting |-> FALSE ]
                 /\ localStorage' = setItem(setItem(localStorage, "wallet_connected", "true"),
                                            "wallet_address", userAddress)
        /\ pending' = RemoveAt(pending, i)
        /\ lastOp' = WalletOp("connect", <<>>, TRUE, FALSE, FALSE)
        /\ UNCHANGED <<mlVars, calls, selected>>

\* disconnect() called from the page
Disconnect ==
    /\ calls < MaxCalls
    /\ calls' = calls + 1
    /\ walletStore' = reset(walletStore)
    /\ localStorage' = removeItem(removeItem(localStorage, "wallet_connected"),
                                  "wallet_address")
    /\ lastOp' = WalletOp("disconnect", <<>>, TRUE, FALSE, FALSE)
    /\ UNCHANGED <<mlVars, pending, selected>>

\* the lists the extension sends with accountsChanged
AccountLists ==
    {<< >>} \cup { <<a>> : a \in Accounts }
            \cup { l \in Accounts \X Accounts : l[1] # l[2] }

\* The extension emits accountsChanged and handleAccountsChanged runs up to
\* its await.  address and provider are the values the handler and its
\* updateBalance closed over: those of the store when the event arrives.
HandleAccountsChanged ==
    /\ calls < MaxCalls
    /\ calls' = calls + 1
    /\ \E accountList \in AccountLists :
         LET address == walletStore.address
             provider == walletStore.provider
         IN  /\ selected' = IF accountList = << >> THEN Null ELSE accountList[1]
             /\ IF accountList = << >>
                THEN /\ walletStore' = reset(walletStore)
                     /\ localStorage' = removeItem(removeItem(localStorage,
                                              "wallet_connected"), "wallet_address")
                     /\ pending' = pending
                     /\ lastOp' = WalletOp("handleAccountsChanged", accountList,
                                           TRUE, FALSE, FALSE)
                ELSE IF accountList[1] # address
                THEN /\ walletStore' = [walletStore EXCEPT !.address = accountList[1]]
                     /\ localStorage' = localStorage
                     /\ IF provider = Null \/ address = Null
                        THEN /\ pending' = pending
                             /\ lastOp' = WalletOp("handleAccountsChanged", accountList,
                                                   TRUE, TRUE, FALSE)
                        ELSE /\ pending' = Append(pending,
                                               Promise("updateBalance", "getBalance", address,
                                                       "handleAccountsChanged", accountList))
                             /\ lastOp' = WalletOp("handleAccountsChanged", accountList,
                                                   FALSE, TRUE, FALSE)
                ELSE /\ walletStore' = walletStore
                     /\ localStorage' = localStorage
                     /\ pending' = pending
                     /\ lastOp' = WalletOp("handleAccountsChanged", accountList,
                                           TRUE, FALSE, FALSE)
    /\ UNCHANGED mlVars

\* updateBalance() called from the page
UpdateBalance ==
    /\ calls < MaxCalls
    /\ calls' = calls + 1
    /\ IF walletStore.provider = Null \/ walletStore.address = Null
       THEN /\ pending' = pending
            /\ lastOp' = WalletOp("updateBalance", <<>>, TRUE, FALSE, FALSE)
       ELSE /\ pending' = Append(pending, Promise("updateBalance", "getBalance",
                                                  walletStore.address, "none", <<>>))
            /\ lastOp' = WalletOp("updateBalance", <<>>, FALSE, FALSE, FALSE)
    /\ UNCHANGED <<mlVars, walletStore, localStorage, selected>>

\* provider.getBalance(address) of an updateBalance settles: the balance is
\* stored, or the rejection is logged; the caller that awaited it completes.
BalanceSettled ==
    \E i \in DOMAIN pending :
        /\ pending[i].call = "updateBalance"
        /\ \E fulfilled \in BOOLEAN :
             /\ walletStore' =
                    IF fulfilled
                    THEN [walletStore EXCEPT
                              !.balance = formatEther(getBalance(pending[i].address))]
                    ELSE walletStore
             /\ lastOp' = WalletOp(IF pending[i].handler = "none" THEN "updateBalance"
                                   ELSE pending[i].handler,
                                   pending[i].accounts, TRUE,
                                   pending[i].handler # "none", fulfilled)
        /\ pending' = RemoveAt(pending, i)
        /\ UNCHANGED <<mlVars, calls, localStorage, selected>>

NextWallet ==
    \/ Connect \/ ConnectAccounts \/ ConnectAddress \/ ConnectBalance
    \/ Disconnect \/ HandleAccountsChanged \/ UpdateBalance \/ BalanceSettled

SpecWallet == Init /\ [][NextWallet]_vars

(***************************************************************************)
(* Properties                                                               *)
(***************************************************************************)
\* the last min(Len(seq), n) elements of seq
Suffix(seq, n) == SubSeq(seq, Len(seq) - Min(Len(seq), n) + 1, Len(seq))

\* the step is a call of an operation (not a clock tick or a delivery)
IsCall(op) == lastOp'.op = op /\ calls' = calls + 1

\* C1: for a prediction whose decision is decline, optimize returns approve
\* whenever falseDeclineRisk > 0.8 and fraudProbability < 0.4 (also when the
\* review condition holds), otherwise review when falseDeclineRisk > 0.6 and
\* expectedValue > 0, otherwise decline.
C1_ApproveTakesPrecedence ==
    (lastOp.op = "optimize" /\ probe.decision = "decline") =>
        LET expectedValue == (One - probe.fraudProbability) * probe.amount
                             - probe.fraudProbability * (probe.amount + 2500)
        IN  lastOp.optimizations[1].optimizedDecision =
              IF probe.falseDeclineRisk > 800 /\ probe.fraudProbability < 400
              THEN "approve"
              ELSE IF probe.falseDeclineRisk > 600 /\ expectedValue > 0
                   THEN "review"
                   ELSE "decline"

\* C2: optimize never changes an original decision of approve; a review
\* becomes approve when fraudProbability < 0.35 and confidence > 0.8, decline
\* when fraudProbability > 0.7, and stays review in every other case.
C2_ApproveKeptReviewRules ==
    (lastOp.op = "optimize" /\ probe.decision # "decline") =>
        lastOp.optimizations[1].optimizedDecision =
          IF probe.decision = "approve" THEN "approve"
          ELSE IF probe.fraudProbability < 350 /\ probe.confidence > 800 THEN "approve"
          ELSE IF probe.fraudProbability > 700 THEN "decline"
          ELSE "review"

\* a review at fraudProbability exactly 0.7 stays a review
C2_Witness ==
    /\ lastOp.op = "optimize"
    /\ probe.decision = "review"
    /\ probe.fraudProbability = 700
    /\ lastOp.optimizations[1].optimizedDecision = "review"

\* C3: the decision is a function of the adjusted score with half-open
\* bands: approve iff score < 0.3, review iff 0.3 <= score < 0.6, decline iff
\* score >= 0.6; this holds of makeDecision and of every prediction returned
\* by predict.
C3_DecisionBands ==
    lastOp.op \in {"makeDecision", "predict"} =>
        \A i \in DOMAIN lastOp.predictions :
            LET p == lastOp.predictions[i]
            IN  /\ p.decision = "approve" <=> p.adjustedScore < 300
                /\ p.decision = "review" <=> (300 <= p.adjustedScore /\ p.adjustedScore < 600)
                /\ p.decision = "decline" <=> p.adjustedScore >= 600

\* a score of exactly 0.3 gives review
C3_Witness ==
    /\ lastOp.op = "makeDecision"
    /\ probe.score = 300
    /\ lastOp.predictions[1].decision = "review"

\* C4: for a valid transaction, the prediction has an integer riskScore in
\* [0,100] equal to round(adjustedScore * 100), and fraudProbability,
\* falseDeclineRisk, adjustedScore and confidence all lie in [0,1].
C4_PredictionRanges ==
    (lastOp.op = "assessRisk" /\ ValidTxn(lastOp.txns[1])) =>
        LET p == lastOp.predictions[1]
        IN  /\ p.riskScore \in 0 .. 100
            /\ 10 * p.riskScore - 5 <= p.adjustedScore
            /\ p.adjustedScore < 10 * p.riskScore + 5
            /\ p.fraudProbability \in 0 .. One
            /\ p.falseDeclineRisk \in 0 .. One
            /\ p.adjustedScore \in 0 .. One
            /\ p.confidence \in 0 .. One

\* a first crypto transaction of a large amount: both multipliers fire and
\* the fraud probability is capped at 1
C4_Witness ==
    /\ lastOp.op = "assessRisk"
    /\ lastOp.txns[1] = TxnA1
    /\ lastOp.predictions[1].features.is_first_transaction = One
    /\ lastOp.predictions[1].fraudProbability = One

\* C5: every history has at most HistoryLimit entries, and recording t leaves
\* the customer's history equal to the last min(n, HistoryLimit) entries of
\* the history before followed by t (the oldest entry is evicted first).
C5_HistoryBoundFifo ==
    /\ [](\A u \in DOMAIN userTransactionHistory :
              Len(userTransactionHistory[u]) <= HistoryLimit)
    /\ [][ (IsCall("record") \/ IsCall("assessRisk")) =>
              LET t == lastOp'.txns[1]
                  before == getUserHistory(userTransactionHistory, UserIdOf(t))
              IN  userTransactionHistory'[UserIdOf(t)] =
                      Suffix(Append(before, t), HistoryLimit) ]_vars

\* three transactions recorded for one customer: the first one is gone
C5_Witness ==
    /\ calls = 3
    /\ DOMAIN userTransactionHistory = {"alice"}
    /\ userTransactionHistory["alice"] = <<TxnA2, TxnA1>>

\* C6: assessRisk(t) extracts the features of the returned prediction from
\* the history as it was before t was recorded, and then records t exactly
\* once, changing no other customer's history.
C6_ExtractBeforeRecordOnce ==
    [][ IsCall("assessRisk") =>
          LET t == lastOp'.txns[1]
              before == getUserHistory(userTransactionHistory, UserIdOf(t))
              f == lastOp'.predictions[1].features
          IN  /\ f.is_first_transaction = (IF before = << >> THEN One ELSE 0)
              /\ f.user_txn_count_24h =
                   Min(100 * Cardinality({i \in DOMAIN before :
                                             before[i].timestamp > now - 24}), One)
              /\ (before = << >>) => f.time_since_last_txn_minutes = 9999 * One
              /\ userTransactionHistory'[UserIdOf(t)] =
                     Suffix(Append(before, t), HistoryLimit)
              /\ \A u \in DOMAIN userTransactionHistory' \ {UserIdOf(t)} :
                     /\ u \in DOMAIN userTransactionHistory
                     /\ userTransactionHistory'[u] = userTransactionHistory[u] ]_vars

\* the first assessment of a customer: flagged as first, then recorded once
C6_Witness ==
    /\ lastOp.op = "assessRisk"
    /\ lastOp.txns[1] = TxnA2
    /\ lastOp.predictions[1].features.is_first_transaction = One
    /\ userTransactionHistory["alice"] = <<TxnA2>>

\* the transactions of the calls in flight for customer u, in call order
InflightOf(u) ==
    LET mine == SelectSeq(inflight, LAMBDA c : UserIdOf(c.txn) = u)
    IN  [i \in DOMAIN mine |-> mine[i].txn]

\* C7: of two assessRisk calls in flight for the same customer, the later
\* one extracts its features from a history that contains the earlier one's
\* transaction (so at most one is flagged as first transaction), and the
\* transactions are recorded once each, in call order.
C7_InflightCallsSerialized ==
    /\ \A i, j \in DOMAIN inflight :
          (i < j /\ UserIdOf(inflight[i].txn) = UserIdOf(inflight[j].txn)) =>
              inflight[j].prediction.features.is_first_transaction = 0
    /\ \A u \in {UserIdOf(t) : t \in Txns} :
          LET history == getUserHistory(userTransactionHistory, u)
          IN  Suffix(history, Len(InflightOf(u))) = Suffix(InflightOf(u), HistoryLimit)

\* two calls in flight for a new customer
C7_Witness ==
    /\ Len(inflight) = 2
    /\ inflight[1].txn = TxnA1
    /\ inflight[2].txn = TxnA2
    /\ inflight[1].prediction.features.is_first_transaction = One
    /\ inflight[2].prediction.features.is_first_transaction = 0
    /\ userTransactionHistory["alice"] = <<TxnA1, TxnA2>>

\* the number of transactions of customer u in a batch
RECURSIVE CountOf(_, _)
CountOf(batch, u) ==
    IF batch = << >> THEN 0
    ELSE (IF UserIdOf(Head(batch)) = u THEN 1 ELSE 0) + CountOf(Tail(batch), u)

\* C8: batchAssessRisk records every transaction of the batch once: each
\* customer's history grows by the number of that customer's transactions in
\* the batch (up to the bound), and a later transaction of a customer in the
\* batch is not scored as that customer's first transaction.
C8_BatchRecordsEach ==
    [][ IsCall("batchAssessRisk") =>
          LET batch == lastOp'.txns
          IN  /\ \A u \in {UserIdOf(t) : t \in Txns} :
                    Len(getUserHistory(userTransactionHistory', u)) =
                        Min(Len(getUserHistory(userTransactionHistory, u))
                                + CountOf(batch, u), HistoryLimit)
              /\ \A i, j \in DOMAIN batch :
                    (i < j /\ UserIdOf(batch[i]) = UserIdOf(batch[j])) =>
                        lastOp'.predictions[j].features.is_first_transaction = 0 ]_vars

\* C9: assessRisk on a malformed transaction is rejected before feature
\* extraction: no prediction is returned, and the histories and the
\* prediction log are unchanged.
C9_MalformedRejected ==
    [][ (IsCall("assessRisk") /\ ~ValidTxn(lastOp'.txns[1])) =>
          /\ lastOp'.predictions = << >>
          /\ userTransactionHistory' = userTransactionHistory
          /\ predictionHistory' = predictionHistory ]_vars

\* C10: recording a transaction a second time raises an error instead of
\* appending: no history contains two entries with the same transaction id.
C10_NoDuplicateEntries ==
    \A u \in DOMAIN userTransactionHistory :
        \A i, j \in DOMAIN userTransactionHistory[u] :
            i < j => userTransactionHistory[u][i].id # userTransactionHistory[u][j].id

\* the feature vector returned by the extractFeatures call of this step
Extracted == lastOp'.predictions[1].features

\* C11: the feature time_since_last_txn_minutes returned by extract lies in
\* [0,1]; for an empty history it is 1.0 and amount_ratio_vs_avg is 1.0, and
\* for a non-empty history it is min(minutes since the most recent entry,
\* 1440) / 1440.
C11_TimeSinceLastNormalized ==
    [][ IsCall("extractFeatures") =>
          LET t == lastOp'.txns[1]
              history == getUserHistory(userTransactionHistory, UserIdOf(t))
          IN  /\ Extracted.time_since_last_txn_minutes \in 0 .. One
              /\ (history = << >>) =>
                     /\ Extracted.amount_ratio_vs_avg = One
                     /\ Extracted.time_since_last_txn_minutes = One
              /\ (history # << >>) =>
                     Extracted.time_since_last_txn_minutes =
                         (Min((t.timestamp - history[Len(history)].timestamp) * 60, 1440)
                            * One) \div 1440 ]_vars

\* C12: extractFeatures leaves the history map as it was: the same customer
\* keys, and for each the same entries in the same order.
C12_ExtractKeepsHistory ==
    [][ IsCall("extractFeatures") =>
          /\ DOMAIN userTransactionHistory' = DOMAIN userTransactionHistory
          /\ userTransactionHistory' = userTransactionHistory ]_vars

\* features are extracted for a customer without history while another
\* customer has one: no key is created, no entry touched
C12_Witness ==
    /\ lastOp.op = "extractFeatures"
    /\ lastOp.txns[1] = TxnBad
    /\ lastOp.predictions[1].features.is_first_transaction = One
    /\ userTransactionHistory = [u \in {"alice"} |-> <<TxnA2, TxnA1>>]

\* the fields of a feature vector that pass device and location signals through
DeviceFields == {"device_age_days", "ip_country_match", "billing_shipping_match"}

\* C13: two consecutive extractions for the same transaction with no record
\* in between (the clock may advance, the random source may change) agree on
\* every field other than the device and location fields.
C13_ExtractIdempotent ==
    [][ (lastOp.op = "extractFeatures" /\ IsCall("extractFeatures")
            /\ lastOp'.txns = lastOp.txns) =>
          \A k \in DOMAIN Extracted \ DeviceFields :
              Extracted[k] = lastOp.predictions[1].features[k] ]_vars

\* C14: once an age has been generated for a user (whatever its value, 0
\* included), every later extraction for that user returns that age and
\* leaves the cached value alone.
C14_AgeGeneratedOnce ==
    [][ (IsCall("extractFeatures") /\ UserIdOf(lastOp'.txns[1]) \in DOMAIN featureCache) =>
          LET u == UserIdOf(lastOp'.txns[1])
          IN  /\ featureCache'[u] = featureCache[u]
              /\ Extracted.user_age_days = featureCache[u] \div 365 ]_vars

\* C15: the prediction log never holds more than PredictionLogLimit entries;
\* after n assessRisk calls it holds the predictions of the last
\* min(n, PredictionLogLimit) calls in call order, and getRealTimeStats
\* reports that number as totalPredictions.
C15_PredictionLogBound ==
    /\ [](/\ Len(predictionHistory) <= PredictionLogLimit
          /\ getRealTimeStats(predictionHistory).totalPredictions =
                 Min(calls, PredictionLogLimit))
    /\ [][ IsCall("assessRisk") =>
              predictionHistory' =
                  Suffix(Append(predictionHistory, lastOp'.predictions[1]),
                         PredictionLogLimit) ]_vars

\* one call more than the log holds: the first prediction is gone, the
\* others are kept in call order
C15_Witness ==
    /\ calls = PredictionLogLimit + 1
    /\ Len(predictionHistory) = PredictionLogLimit
    /\ predictionHistory[Len(predictionHistory)] = lastOp.predictions[1]
    /\ predictionHistory[Len(predictionHistory)].transactionId = TxnBad.id
    /\ predictionHistory[Len(predictionHistory) - 1].transactionId = TxnA2.id
    /\ getRealTimeStats(predictionHistory).totalPredictions = PredictionLogLimit

\* C16: optimize returns potentialRevenue = transaction.amount when the
\* expected value (1 - p) * amount - p * (amount + 25) is positive, and 0
\* otherwise (amounts in cents, p in thousandths).
C16_PotentialRevenue ==
    lastOp.op = "optimize" =>
        LET p == probe.fraudProbability
            expectedValue == (One - p) * probe.amount - p * (probe.amount + 2500)
        IN  lastOp.optimizations[1].potentialRevenue =
                IF expectedValue > 0 THEN probe.amount ELSE 0

\* amount 100.00 at fraud probability 0.05: expected value 88.75, revenue 100.00
C16_Witness ==
    /\ lastOp.op = "optimize"
    /\ probe.amount = 10000
    /\ probe.fraudProbability = 50
    /\ calculateExpectedValue(probe.amount, probe.fraudProbability) = 8875 * One
    /\ lastOp.optimizations[1].potentialRevenue = 10000

\* the lines generateReasoning may add after the decision line
ContextNotes ==
    { "Established user account (trust signal)",
      "Active user with transaction history",
      "Location and address verification passed" }

\* the line that names the override from one decision to another
OverrideLine(originalDecision, optimizedDecision) ==
    CASE originalDecision = "decline" /\ optimizedDecision = "approve" ->
            "Changed to APPROVE: High false decline risk detected, likely legitimate transaction"
      [] originalDecision = "decline" /\ optimizedDecision = "review" ->
            "Changed to REVIEW: Uncertain, recommend manual verification to avoid false decline"
      [] originalDecision = "review" /\ optimizedDecision = "approve" ->
            "Changed to APPROVE: Low fraud risk with high confidence"
      [] OTHER -> "Changed to DECLINE"

\* C17: the reasoning list of optimize states, in order, the original
\* decision, the fraud probability, the false-decline risk and the sign of
\* the expected value, then exactly one line that names the override that
\* fired (decline to approve, decline to review, review to approve, review
\* to decline) or confirms the unchanged decision; only context notes follow.
C17_ReasoningTrace ==
    lastOp.op = "optimize" =>
        LET o == lastOp.optimizations[1]
            r == o.reasoning
            expectedValue == calculateExpectedValue(probe.amount, probe.fraudProbability)
        IN  /\ Len(r) >= 5
            /\ r[1].text = "Original model decision: " \o toUpperCase(o.originalDecision)
            /\ r[2] = Line("Fraud probability: %", probe.fraudProbability)
            /\ r[3] = Line("False decline risk: %", probe.falseDeclineRisk)
            /\ r[4].text = IF expectedValue > 0 THEN "Positive expected value: $"
                                                ELSE "Negative expected value: $"
            /\ IF o.optimizedDecision = o.originalDecision
               THEN r[5].text = "Decision confirmed: " \o toUpperCase(o.optimizedDecision)
               ELSE r[5].text \notin ContextNotes
                    /\ r[5].text = OverrideLine(o.originalDecision, o.optimizedDecision)
            /\ \A i \in 6 .. Len(r) : r[i].text \in ContextNotes

\* C18: explain returns min(5, number of features) top features in
\* non-increasing order of |contribution|; no feature left out has a strictly
\* larger |contribution| than one retained; every entry's contribution is the
\* feature's SHAP value.
C18_TopFeatures ==
    lastOp.op = "explain" =>
        LET e == lastOp.predictions[1].explanation
            top == e.topFeatures
            retained == { top[i].feature : i \in DOMAIN top }
        IN  /\ DOMAIN e.shapValues = DOMAIN probe.features
            /\ Len(top) = Min(5, Cardinality(DOMAIN probe.features))
            /\ Cardinality(retained) = Len(top)
            /\ \A i, j \in DOMAIN top :
                   i < j => Abs(top[i].contribution) >= Abs(top[j].contribution)
            /\ \A k \in DOMAIN e.shapValues \ retained : \A i \in DOMAIN top :
                   Abs(e.shapValues[k]) <= Abs(top[i].contribution)
            /\ \A i \in DOMAIN top :
                   top[i].contribution = e.shapValues[top[i].feature]

\* a positive probability above the base value: the contributions differ in
\* sign and size, and a negative one is among the five retained
C18_Witness ==
    /\ lastOp.op = "explain"
    /\ probe.fraudProbability = 500
    /\ Len(lastOp.predictions[1].explanation.topFeatures) = 5
    /\ \E i \in 1 .. 5 : lastOp.predictions[1].explanation.topFeatures[i].contribution < 0
    /\ \E i \in 1 .. 4 :
          Abs(lastOp.predictions[1].explanation.topFeatures[i].contribution) >
              Abs(lastOp.predictions[1].explanation.topFeatures[i + 1].contribution)

\* the texts of the top features whose contribution has the given sign
\* (1 or -1), in order
SignedFactors(top, features, sign, type) ==
    LET chosen == SelectSeq(top, LAMBDA f :
                      /\ f.contribution * sign > 0
                      /\ getFeatureExplanation(f.feature, features, type) # null)
    IN  [ i \in DOMAIN chosen |-> getFeatureExplanation(chosen[i].feature, features, type) ]

\* C19: each top feature contributes at most one string: a risk factor only
\* if its contribution is strictly positive, a protective factor only if it
\* is strictly negative, none if it is 0; so the two lists together are no
\* longer than topFeatures.
C19_FactorsBySign ==
    lastOp.op = "explain" =>
        LET e == lastOp.predictions[1].explanation
        IN  /\ e.riskFactors = SignedFactors(e.topFeatures, probe.features, 1, "risk")
            /\ e.protectiveFactors =
                   SignedFactors(e.topFeatures, probe.features, -1, "protective")
            /\ Len(e.riskFactors) + Len(e.protectiveFactors) <= Len(e.topFeatures)

\* C20: the explanation attached to the prediction returned by assessRisk is
\* explain(prediction.features, prediction.fraudProbability): it is computed
\* from the feature vector that was scored.
C20_OneFeatureVector ==
    lastOp.op = "assessRisk" =>
        LET p == lastOp.predictions[1]
        IN  /\ p.explanation = explain(p.features, p.fraudProbability)
            /\ \A f \in DOMAIN p.features :
                   p.explanation.shapValues[f] =
                       calculateSHAPValues(p.features, p.fraudProbability)[f]

\* the features the trees of the ensemble split on
ReferencedFeatures == { FeatureNames[i] : i \in DOMAIN FeatureNames }

\* C21: scoring a feature object that lacks a feature the ensemble splits on
\* fails with an error instead of returning a fraud probability.
C21_MissingFeatureFails ==
    (/\ lastOp.op = "predictFraudProbability"
     /\ ~(ReferencedFeatures \subseteq DOMAIN probe.features))
        => lastOp.predictions[1].threw

\* C22: the recommendation of abTest reports agreement exactly when the risk
\* scores differ by less than 5 points; otherwise it names A only if A's
\* confidence is the larger and B only if B's confidence is the larger.
C22_NamesMoreConfident ==
    lastOp.op = "abTest" =>
        LET a == lastOp.predictions[1]
            b == lastOp.predictions[2]
            text == lastOp.recommendation.text
        IN  /\ (text = "Models agree (similar scores)") <=> (Abs(a.riskScore - b.riskScore) < 5)
            /\ (text = "Model A more confident") => (a.confidence > b.confidence)
            /\ (text = "Model B more confident") => (b.confidence > a.confidence)

\* the grid values of the two thresholds
ApproveGrid == { DoubleOf(m) : m \in {200, 250, 300, 350, 400} }
DeclineGrid == { DoubleOf(m) : m \in {500, 550, 600, 650, 700} }

\* x is the grid value g up to one unit in the last place
OnGrid(x, grid) == \E g \in grid : x = g \/ NextUp(x) = g \/ x = NextUp(g)

\* C23: optimizeThresholds returns a pair of the 25-point grid (up to the
\* last binary digit) whose simulated net revenue is maximal among all 25
\* grid pairs, declineThreshold 0.7 included, with
\* approveThreshold < declineThreshold.
C23_GridMaximum ==
    lastOp.op = "optimizeThresholds" =>
        LET r == lastOp.optimizations[1]
        IN  /\ OnGrid(r.approveThreshold, ApproveGrid)
            /\ OnGrid(r.declineThreshold, DeclineGrid)
            /\ DoubleLess(r.approveThreshold, r.declineThreshold)
            /\ \A a \in ApproveGrid, d \in DeclineGrid :
                   simulateNetRevenue(probe.data, r.approveThreshold, r.declineThreshold)
                       >= simulateNetRevenue(probe.data, a, d)

\* the three rule conditions on the probe's features
CryptoRule == probe.features.is_crypto = One /\ probe.features.amount_ratio_vs_avg > 800
FirstRule == probe.features.is_first_transaction = One /\ probe.features.amount_log > 700
EstablishedRule == probe.features.user_age_days > 500 /\ probe.features.user_txn_count_7d > 300

\* C24: the rule adjustments are cumulative and applied in the order x1.3
\* (capped at 1), x1.2 (capped at 1), x0.8; with all three rules the result is
\* min(min(p*1.3, 1)*1.2, 1)*0.8; the result always lies in [0,1].
C24_RulesInOrder ==
    lastOp.op = "adjustFraudProbability" =>
        LET p == probe.fraudProbability
            r == lastOp.predictions[1].fraudProbability
            afterCrypto == IF CryptoRule THEN Min((p * 13) \div 10, One) ELSE p
            afterFirst == IF FirstRule THEN Min((afterCrypto * 12) \div 10, One)
                          ELSE afterCrypto
        IN  /\ r \in 0 .. One
            /\ r = IF EstablishedRule THEN (afterFirst * 8) \div 10 ELSE afterFirst
            /\ (CryptoRule /\ FirstRule /\ EstablishedRule) =>
                   r = (Min((Min((p * 13) \div 10, One) * 12) \div 10, One) * 8) \div 10

\* all three rules fire on a probability that both caps cut to 1
C24_Witness ==
    /\ lastOp.op = "adjustFraudProbability"
    /\ CryptoRule /\ FirstRule /\ EstablishedRule
    /\ probe.fraudProbability = 800
    /\ lastOp.predictions[1].fraudProbability = 800

\* the key a transaction is filed under: its customer id, or the shared
\* key of the transactions without one
BucketOf(t) == IF t.customerId = "" THEN "anonymous" ELSE t.customerId

\* C25: record(t) changes the history of t's customer key (the shared
\* "anonymous" key when the id is absent) and no other history; once a
\* transaction without a customer id is on record, no transaction without a
\* customer id is flagged as a first transaction.
C25_HistoriesIsolated ==
    [][ /\ IsCall("record") =>
              LET key == BucketOf(lastOp'.txns[1])
              IN  /\ DOMAIN userTransactionHistory' = DOMAIN userTransactionHistory \cup {key}
                  /\ userTransactionHistory'[key][Len(userTransactionHistory'[key])]
                         = lastOp'.txns[1]
                  /\ \A u \in DOMAIN userTransactionHistory \ {key} :
                         userTransactionHistory'[u] = userTransactionHistory[u]
        /\ (/\ IsCall("extractFeatures")
            /\ lastOp'.txns[1].customerId = ""
            /\ \E u \in DOMAIN userTransactionHistory :
                   \E i \in DOMAIN userTransactionHistory[u] :
                       userTransactionHistory[u][i].customerId = "")
              => Extracted.is_first_transaction = 0 ]_vars

\* one transaction without a customer id is on record next to another
\* customer, and features are extracted for a second id-less transaction
C25_Witness ==
    /\ lastOp.op = "extractFeatures"
    /\ lastOp.txns[1] = TxnAnon
    /\ lastOp.predictions[1].features.is_first_transaction = 0
    /\ DOMAIN userTransactionHistory = {"anonymous", "bob"}
    /\ userTransactionHistory["anonymous"] = <<TxnBad>>

\* C26: with the default model every fraud probability returned by the
\* scoring chain is above 0.58 and every adjusted score above 0.3, so no
\* prediction has decision approve and no optimized decision is approve.
C26_NeverApproved ==
    lastOp.op \in {"predict", "scoreVector"} =>
        /\ lastOp.predictions[1].fraudProbability > 580
        /\ lastOp.predictions[1].adjustedScore > 300
        /\ lastOp.predictions[1].decision # "approve"
        /\ \A i \in DOMAIN lastOp.optimizations :
               lastOp.optimizations[i].optimizedDecision # "approve"

\* every tree returns its lowest leaf and the protective rule fires: the
\* lowest probability, and a prediction that is reviewed, not declined
C26_Witness ==
    /\ lastOp.op = "scoreVector"
    /\ probe.features.amount_log = 0
    /\ lastOp.predictions[1].fraudProbability < 650
    /\ lastOp.predictions[1].decision = "review"
    /\ lastOp.optimizations[1].optimizedDecision = "review"

\* how strict a decision is
Strictness(decision) ==
    CASE decision = "approve" -> 0 [] decision = "review" -> 1 [] decision = "decline" -> 2

\* C27: for a probability, a false-decline risk and a weight in [0,1] the
\* adjusted score is at most the fraud probability, and the decision on the
\* adjusted score is not stricter than the decision on the probability.
C27_AdjustmentNeverRaises ==
    lastOp.op = "adjustScore" =>
        /\ lastOp.predictions[1].adjustedScore <= probe.fraudProbability
        /\ Strictness(lastOp.predictions[1].decision)
               <= Strictness(makeDecision(probe.fraudProbability))

\* full weight and full risk turn a declined probability into an approval
C27_Witness ==
    /\ lastOp.op = "adjustScore"
    /\ probe.fraudProbability = 600
    /\ probe.weight = 1000
    /\ probe.falseDeclineRisk = 1000
    /\ lastOp.predictions[1].decision = "approve"

\* the labelled predictions of the probe that satisfy a test
LegitimateDeclines(decisionField) ==
    { i \in DOMAIN lastOp.optimizations :
        lastOp.optimizations[i][decisionField] = "decline" /\ ~probe.data[i].isFraud }

\* legitimate reviewed transactions with a fraud probability above 0.7
LegitimateTightened ==
    { i \in DOMAIN probe.data : /\ ~probe.data[i].isFraud
                                /\ probe.data[i].decision = "review"
                                /\ probe.data[i].fraudProbability > 700 }

\* C28 as stated: the legitimate transactions declined after optimization are
\* at most those declined before it, and falseDeclineReduction >= 0.
C28_NeverMoreFalseDeclines ==
    lastOp.op = "metrics" =>
        /\ Cardinality(LegitimateDeclines("optimizedDecision"))
               <= Cardinality(LegitimateDeclines("originalDecision"))
        /\ lastOp.metrics.falseDeclineReduction.num >= 0

\* C28 amended: a result is declined after optimization only if it was
\* declined before it or was a review with a fraud probability above 0.7, so
\* the false declines grow by at most the legitimate reviews above 0.7 and
\* falseDeclineReduction is at least minus their share of the results.
C28_FalseDeclinesBounded ==
    lastOp.op = "metrics" =>
        /\ \A i \in DOMAIN lastOp.optimizations :
              lastOp.optimizations[i].optimizedDecision = "decline" =>
                  \/ lastOp.optimizations[i].originalDecision = "decline"
                  \/ /\ lastOp.optimizations[i].originalDecision = "review"
                     /\ probe.data[i].fraudProbability > 700
        /\ Cardinality(LegitimateDeclines("optimizedDecision"))
               <= Cardinality(LegitimateDeclines("originalDecision"))
                      + Cardinality(LegitimateTightened)
        /\ lastOp.metrics.falseDeclineReduction.num >= 0 - Cardinality(LegitimateTightened)
        /\ lastOp.metrics.falseDeclineReduction.den = Len(probe.data)

\* a legitimate review above 0.7 is declined and the reduction is negative
C28_Witness ==
    /\ lastOp.op = "metrics"
    /\ LegitimateTightened # {}
    /\ lastOp.metrics.falseDeclineReduction.num < 0

\* the last n entries of a log
LastEntries(log, n) == SubSeq(log, Len(log) - Min(n, Len(log)) + 1, Len(log))

\* C29: getPredictionHistory(limit) returns at most limit entries (none for
\* limit = 0), the most recent ones of the prediction log in log order.
C29_AtMostLimit ==
    lastOp.op = "getPredictionHistory" =>
        /\ Len(lastOp.predictions) <= lastOp.limit
        /\ lastOp.predictions = LastEntries(predictionHistory, lastOp.limit)

\* C30: when handleAccountsChanged has completed for a list whose first
\* account differed from the stored address and the balance was fetched, the
\* store holds the new account and the balance of that account; when it has
\* completed for an empty list the store is in its initial state and the
\* saved connection keys are gone.
C30_BalanceOfNewAccount ==
    (lastOp.op = "handleAccountsChanged" /\ lastOp.completed) =>
        IF lastOp.accounts = << >>
        THEN /\ walletStore = reset(initialState)
             /\ DOMAIN localStorage \cap {"wallet_connected", "wallet_address"} = {}
        ELSE (lastOp.switched /\ lastOp.fetched) =>
                 /\ walletStore.address = lastOp.accounts[1]
                 /\ walletStore.balance = formatEther(getBalance(lastOp.accounts[1]))

====
